---------------------------- MODULE Spec2Model ----------------------------
(***************************************************************************)
(* Taint propagation over an Ethereum-style transaction history             *)
(* (RaphaelK77/EthereumBlacklisting): the blacklist stores, the policies'   *)
(* taint-transfer and gas-fee rules, the temporary balance ledger and the   *)
(* propagator with its checkpoints.                                         *)
(***************************************************************************)
EXTENDS Integers, Sequences, FiniteSets, TLC

VARIABLES
    policy,                 \* get_policy_name() of the policy object
    blacklist,              \* self._blacklist._blacklist
    temp_balances,          \* self.temp_balances
    tainted_transactions,   \* self._tainted_transactions_per_account
    permanent,              \* accounts flagged by permanently_taint_account
    chain_balance,          \* balances of the current block the chain source has answered
    error,                  \* the exception that ended processing, "" if none
    last,                   \* the operation performed last, with its arguments and results
    steps,                  \* number of operations performed
    chain,                  \* the blocks the chain source delivers to the propagator
    pc,                     \* propagator: position of the propagation job
    current_block,          \* self._current_block
    loop_start_block,       \* loop_start_block of the running propagate_blacklist call
    next_block,             \* the loop variable i: the block _process_block gets next
    checkpoint,             \* content of the checkpoint file
    processed,              \* history: every block number passed to _process_block
    resumed,                \* the running call continues from a loaded checkpoint
    current_tx,             \* EthereumUtils.current_tx
    reverted_traces         \* EthereumUtils.reverted_traces

vars == <<policy, blacklist, temp_balances, tainted_transactions, permanent,
          chain_balance, error, last, steps, chain, pc, current_block,
          loop_start_block, next_block, checkpoint, processed, resumed,
          current_tx, reverted_traces>>

polVars == <<policy, blacklist, temp_balances, tainted_transactions, permanent,
             chain_balance, error, last, steps>>

propVars == <<chain, pc, current_block, loop_start_block, next_block,
              checkpoint, processed, resumed, current_tx, reverted_traces>>

-----------------------------------------------------------------------------
(* Bounds of the model *)

MaxAmount == 2          \* amounts carried by events
MaxBalance == 2         \* balances the chain source answers
MaxGasPrice == 2        \* gasPrice and baseFeePerGas
MaxSteps == 3           \* operations per behaviour of the policy engine
MaxBlocks == 3          \* block_amount of a propagation job
MaxEvents == 2          \* transfer events in one Haircut transaction
MaxStops == 1           \* interruptions of a propagation job

-----------------------------------------------------------------------------
(* Addresses and currencies *)

NULL_ADDRESS == "0x0000"
WETH == "0xC02a"
WETH_LOWER == "0xc02a"
ETH == "ETH"
TOKEN == "0xT0ke"
ALL == "all"
None == "None"

Accounts == {"0xAAA", "0xBBB"}
Addresses == Accounts \cup {NULL_ADDRESS}
Currencies == {ETH, WETH, TOKEN}

Min(a, b) == IF a < b THEN a ELSE b
Max(a, b) == IF a > b THEN a ELSE b
Abs(a) == IF a < 0 THEN -a ELSE a

-----------------------------------------------------------------------------
(* Python dicts: functions whose domain is the set of keys *)

EmptyDict == << >>

\* the checkpoint file while it does not exist
NoFile == [type |-> "missing"]
Put(d, k, v) == [x \in (DOMAIN d) \cup {k} |-> IF x = k THEN v ELSE d[x]]
Del(d, k) == [x \in (DOMAIN d) \ {k} |-> d[x]]

RECURSIVE SumSeq(_, _)
SumSeq(q, idx) == IF q = << >> THEN 0 ELSE Head(q)[idx] + SumSeq(Tail(q), idx)


-----------------------------------------------------------------------------
(* SetBlacklist (Poison): the set of tainted accounts *)

Set_add_to_blacklist(bl, address) == bl \cup {address}

Set_is_blacklisted(bl, address) == address \in bl

-----------------------------------------------------------------------------
(* DictBlacklist (Haircut, Seniority, Reversed Seniority):                   *)
(* account -> {currency -> value, "all" -> list of currencies}               *)

Dict_is_blacklisted(bl, address, currency) ==
    IF currency = None
    THEN address \in DOMAIN bl
    ELSE address \in DOMAIN bl /\ currency \in DOMAIN bl[address]

Dict_add_to_blacklist(bl, address, currency, amount) ==
    LET b1 == IF address \notin DOMAIN bl THEN Put(bl, address, EmptyDict) ELSE bl
        a1 == IF currency \notin DOMAIN b1[address]
              THEN Put(b1[address], currency, 0)
              ELSE b1[address]
    IN  Put(b1, address, Put(a1, currency, a1[currency] + amount))

\* returns [bl, ret]; the caller has checked that (address, currency) is a key
Dict_remove_from_blacklist(bl, address, amount, currency) ==
    LET amt == Abs(amount)
        value == bl[address][currency] - amt
        a1 == IF value = 0
              THEN Del(bl[address], currency)
              ELSE Put(bl[address], currency, value)
        b1 == IF value = 0 /\ DOMAIN a1 = {}
              THEN Del(bl, address)
              ELSE Put(bl, address, a1)
    IN  [bl |-> b1, ret |-> amt]

Dict_add_account_to_blacklist(bl, account) ==
    LET b1 == IF account \notin DOMAIN bl THEN Put(bl, account, EmptyDict) ELSE bl
    IN  Put(b1, account, Put(b1[account], ALL, << >>))

Dict_get_account_blacklist_value(bl, account, currency) ==
    IF account \notin DOMAIN bl \/ currency \notin DOMAIN bl[account]
    THEN 0
    ELSE bl[account][currency]

Dict_add_currency_to_all(bl, account, currency) ==
    Put(bl, account, Put(bl[account], ALL, Append(bl[account][ALL], currency)))

-----------------------------------------------------------------------------
(* FIFOBlacklist: account -> {currency -> queue of <<tainted, total>>}       *)

FIFO_get_tracked_value(bl, account, currency) ==
    IF account \notin DOMAIN bl \/ currency \notin DOMAIN bl[account]
    THEN 0
    ELSE SumSeq(bl[account][currency], 2)

FIFO_get_account_blacklist_value(bl, account, currency) ==
    IF account \notin DOMAIN bl \/ currency \notin DOMAIN bl[account]
    THEN 0
    ELSE IF currency = ALL
         THEN bl[account][currency]
         ELSE SumSeq(bl[account][currency], 1)

QueueOf(bl, account, currency) ==
    IF account \notin DOMAIN bl \/ currency \notin DOMAIN bl[account]
    THEN << >>
    ELSE bl[account][currency]

\* the purge both FIFO mutators end with
FIFO_purge(bl, address, currency) ==
    LET a1 == IF FIFO_get_account_blacklist_value(bl, address, currency) = 0
              THEN Del(bl[address], currency)
              ELSE bl[address]
    IN  IF DOMAIN a1 = {} THEN Del(bl, address) ELSE Put(bl, address, a1)

FIFO_add_to_blacklist(bl, address, currency, amount, total_amount) ==
    LET total == IF total_amount \in Int THEN total_amount ELSE amount
        b1 == IF address \notin DOMAIN bl THEN Put(bl, address, EmptyDict) ELSE bl
        a1 == IF currency \notin DOMAIN b1[address]
              THEN Put(b1[address], currency, << >>)
              ELSE b1[address]
        q  == a1[currency]
        n  == Len(q)
        q1 == IF amount = 0 /\ q # << >> /\ q[n][1] = 0
              THEN [q EXCEPT ![n] = <<q[n][1], q[n][2] + total>>]
              ELSE Append(q, <<amount, total>>)
    IN  FIFO_purge(Put(b1, address, Put(a1, currency, q1)), address, currency)

\* a loop that would take the tainted part of a pair first
RECURSIVE FIFO_remove_tainted_first(_, _, _)
FIFO_remove_tainted_first(q, amount, blacklisted_amount_removed) ==
    IF q = << >>
    THEN [q |-> q, removed |-> blacklisted_amount_removed]
    ELSE LET amount_reduced == Min(amount, q[1][2])
             removed_taint == Min(q[1][1], amount_reduced)
             head == <<q[1][1] - removed_taint, q[1][2] - amount_reduced>>
             q1 == IF head[2] = 0 THEN Tail(q) ELSE <<head>> \o Tail(q)
         IN  IF amount - amount_reduced = 0
             THEN [q |-> q1, removed |-> blacklisted_amount_removed + removed_taint]
             ELSE FIFO_remove_tainted_first(q1, amount - amount_reduced,
                      blacklisted_amount_removed + removed_taint)

\* an iteration that would pop the head pair only when it took part of it
FIFO_remove_iteration_popping_used(q, amount, blacklisted_amount_removed) ==
    LET blacklisted_tx == q[1]
        amount_reduced == Min(amount, blacklisted_tx[2])
        remaining_taint_in_tx ==
            Min(blacklisted_tx[1], blacklisted_tx[2] - amount_reduced)
        removed_taint == blacklisted_tx[1] - remaining_taint_in_tx
        head == <<blacklisted_tx[1] - removed_taint,
                  blacklisted_tx[2] - amount_reduced>>
    IN  [q       |-> IF head[2] = 0 /\ amount_reduced > 0
                     THEN Tail(q) ELSE <<head>> \o Tail(q),
         amount  |-> amount - amount_reduced,
         removed |-> blacklisted_amount_removed + removed_taint,
         break   |-> amount - amount_reduced = 0]

\* one iteration of the while loop of remove_from_blacklist on a queue that
\* is not empty: [q, amount, removed] after it and whether it ends in break
FIFO_remove_iteration(q, amount, blacklisted_amount_removed) ==
    LET blacklisted_tx == q[1]
        amount_reduced == Min(amount, blacklisted_tx[2])
        remaining_taint_in_tx ==
            Min(blacklisted_tx[1], blacklisted_tx[2] - amount_reduced)
        removed_taint == blacklisted_tx[1] - remaining_taint_in_tx
        head == <<blacklisted_tx[1] - removed_taint,
                  blacklisted_tx[2] - amount_reduced>>
    IN  [q       |-> IF head[2] = 0 THEN Tail(q) ELSE <<head>> \o Tail(q),
         amount  |-> amount - amount_reduced,
         removed |-> blacklisted_amount_removed + removed_taint,
         break   |-> amount - amount_reduced = 0]

\* the while loop of remove_from_blacklist: [q, removed] when it ends
RECURSIVE FIFO_remove_loop(_, _, _)
FIFO_remove_loop(q, amount, blacklisted_amount_removed) ==
    IF q = << >>
    THEN [q |-> q, removed |-> blacklisted_amount_removed]
    ELSE LET blacklisted_tx == q[1]
             amount_reduced == Min(amount, blacklisted_tx[2])
             remaining_taint_in_tx ==
                 Min(blacklisted_tx[1], blacklisted_tx[2] - amount_reduced)
             removed_taint == blacklisted_tx[1] - remaining_taint_in_tx
             head == <<blacklisted_tx[1] - removed_taint,
                       blacklisted_tx[2] - amount_reduced>>
             q1 == IF head[2] = 0 THEN Tail(q) ELSE <<head>> \o Tail(q)
             removed == blacklisted_amount_removed + removed_taint
         IN  IF amount - amount_reduced = 0
             THEN [q |-> q1, removed |-> removed]
             ELSE FIFO_remove_loop(q1, amount - amount_reduced, removed)

\* a removal that would report the whole amount as taint, as DictBlacklist does
FIFO_remove_whole_amount(bl, address, amount, currency) ==
    [bl  |-> FIFO_purge(
                 Put(bl, address,
                     Put(bl[address], currency,
                         FIFO_remove_loop(bl[address][currency], amount, 0).q)),
                 address, currency),
     ret |-> Abs(amount)]

\* returns [bl, ret]; the caller has checked that (address, currency) is a key
FIFO_remove_from_blacklist(bl, address, amount, currency) ==
    LET r  == FIFO_remove_loop(bl[address][currency], amount, 0)
        b1 == Put(bl, address, Put(bl[address], currency, r.q))
    IN  [bl |-> FIFO_purge(b1, address, currency), ret |-> r.removed]

FIFO_add_account_to_blacklist(bl, account) ==
    LET b1 == IF account \notin DOMAIN bl THEN Put(bl, account, EmptyDict) ELSE bl
    IN  Put(b1, account, Put(b1[account], ALL, << >>))

-----------------------------------------------------------------------------
(* The chain source.  A chain view cb maps <<account, currency>> to the      *)
(* balance the node answers for the current block.                           *)

BalanceKeys == Addresses \X Currencies

\* EthereumUtils.is_weth, with Web3.toChecksumAddress
toChecksumAddress(address) == IF address = WETH_LOWER THEN WETH ELSE address

is_weth(address) == IF address = None THEN FALSE ELSE toChecksumAddress(address) = WETH

\* EthereumUtils.is_eth: the list holds the lower-case WETH address
is_eth(currency) == IF currency = ETH THEN TRUE ELSE currency \in {WETH_LOWER}

\* BlacklistPolicy._get_balance: the failure sentinels -1 and -2 count as 0
Get_balance(cb, account, currency) ==
    LET balance == cb[<<account, currency>>]
    IN  IF balance = -1 THEN 0 ELSE IF balance = -2 THEN 0 ELSE balance

-----------------------------------------------------------------------------
(* State of a policy object: [bl, tb, tt, err]                               *)
(*   bl  the blacklist, tb the temp balances, tt the tainted-transaction     *)
(*   counters, err the exception raised ("" while none)                      *)

UsesTempBalances == policy \notin {"Poison", "Seniority"}

NewLedgerEntry == [bal |-> EmptyDict, fetched |-> {}]

add_to_temp_balances(s, account, currency) ==
    IF ~UsesTempBalances \/ account = None
    THEN s
    ELSE LET t1 == IF account \notin DOMAIN s.tb
                   THEN Put(s.tb, account, NewLedgerEntry)
                   ELSE s.tb
             t2 == IF currency \notin DOMAIN t1[account].bal
                   THEN Put(t1, account,
                            [t1[account] EXCEPT !.bal = Put(@, currency, 0)])
                   ELSE t1
         IN  [s EXCEPT !.tb = t2]

\* tb[account][currency] += delta, a KeyError when the key is missing
AdjustLedger(s, account, currency, delta) ==
    IF account \notin DOMAIN s.tb \/ currency \notin DOMAIN s.tb[account].bal
    THEN [s EXCEPT !.err = "KeyError"]
    ELSE [s EXCEPT !.tb = Put(@, account,
             [@[account] EXCEPT !.bal = Put(@, currency, @[currency] + delta)])]

\* an increase that fetches nothing but marks the currency as fetched
increase_temp_balance_marking_fetched(s, account, currency, amount) ==
    IF ~UsesTempBalances
    THEN s
    ELSE LET s1 == IF account \notin DOMAIN s.tb
                      \/ currency \notin DOMAIN s.tb[account].bal
                   THEN add_to_temp_balances(s, account, currency)
                   ELSE s
             s2 == AdjustLedger(s1, account, currency, amount)
         IN  [s2 EXCEPT !.tb = Put(@, account,
                 [@[account] EXCEPT !.fetched = @ \cup {currency}])]

increase_temp_balance(s, account, currency, amount) ==
    IF ~UsesTempBalances
    THEN s
    ELSE LET s1 == IF account \notin DOMAIN s.tb
                   THEN add_to_temp_balances(s, account, currency)
                   ELSE s
         IN  AdjustLedger(s1, account, currency, amount)

reduce_temp_balance(s, account, currency, amount) ==
    IF ~UsesTempBalances
    THEN s
    ELSE LET s1 == IF account \notin DOMAIN s.tb
                      \/ currency \notin DOMAIN s.tb[account].bal
                   THEN add_to_temp_balances(s, account, currency)
                   ELSE s
         IN  AdjustLedger(s1, account, currency, -amount)

\* _get_temp_balance once the ledger entry exists; returns [s, ret]
get_temp_balance_fetch(s1, cb, account, currency) ==
    LET s2 == IF currency \notin s1.tb[account].fetched
              THEN [s1 EXCEPT !.tb = Put(@, account,
                      [bal |-> Put(@[account].bal, currency,
                                   @[account].bal[currency]
                                       + Get_balance(cb, account, currency)),
                       fetched |-> @[account].fetched \cup {currency}])]
              ELSE s1
    IN  [s |-> s2, ret |-> s2.tb[account].bal[currency]]

\* returns [s, ret]
get_temp_balance(s, cb, account, currency) ==
    get_temp_balance_fetch(
        IF account \notin DOMAIN s.tb \/ currency \notin DOMAIN s.tb[account].bal
        THEN add_to_temp_balances(s, account, currency)
        ELSE s,
        cb, account, currency)

-----------------------------------------------------------------------------
(* BlacklistPolicy: the store behind the policy's interface                  *)

is_permanently_tainted(account) == account \in permanent

is_blacklisted(s, address, currency) ==
    IF policy = "Poison"
    THEN Set_is_blacklisted(s.bl, address)
    ELSE Dict_is_blacklisted(s.bl, address, currency)

get_blacklist_value(s, account, currency) ==
    CASE policy = "Poison" -> 0
      [] policy = "FIFO"   -> FIFO_get_account_blacklist_value(s.bl, account, currency)
      [] OTHER             -> Dict_get_account_blacklist_value(s.bl, account, currency)

Store_add_to_blacklist(bl, address, currency, amount, total_amount) ==
    CASE policy = "Poison" -> Set_add_to_blacklist(bl, address)
      [] policy = "FIFO"   -> FIFO_add_to_blacklist(bl, address, currency, amount, total_amount)
      [] OTHER             -> Dict_add_to_blacklist(bl, address, currency, amount)

NoNullGuard_add_to_blacklist(s, address, amount, currency, total_amount) ==
    [s EXCEPT !.bl = Store_add_to_blacklist(@, address, currency, amount, total_amount)]

add_to_blacklist(s, address, amount, currency, total_amount) ==
    IF address = NULL_ADDRESS
    THEN s
    ELSE [s EXCEPT !.bl = Store_add_to_blacklist(@, address, currency, amount, total_amount)]

\* the store's result [bl, ret] as the policy's [s, ret]
StoreResult(s, r) == [s |-> [s EXCEPT !.bl = r.bl], ret |-> r.ret]

\* returns [s, ret]
remove_from_blacklist(s, address, amount, currency) ==
    StoreResult(s, IF policy = "FIFO"
                   THEN FIFO_remove_from_blacklist(s.bl, address, amount, currency)
                   ELSE Dict_remove_from_blacklist(s.bl, address, amount, currency))

add_currency_to_all(s, address, currency) ==
    IF policy = "Poison"
    THEN s
    ELSE [s EXCEPT !.bl = Dict_add_currency_to_all(@, address, currency)]

InList(x, list) == \E i \in 1..Len(list) : list[i] = x

\* fully_taint_token without its test of the "all" list
fully_taint_token_again(s, cb, account, currency, overwrite) ==
    IF policy = "Poison"
    THEN s
    ELSE LET entire_balance == Get_balance(cb, account, currency)
             s1 == add_currency_to_all(s, account, currency)
         IN  IF entire_balance > 0
             THEN add_to_blacklist(s1, account, entire_balance, currency,
                                   entire_balance)
             ELSE s1

fully_taint_token(s, cb, account, currency, overwrite) ==
    IF policy = "Poison"
    THEN s
    ELSE IF ~InList(currency, get_blacklist_value(s, account, ALL)) \/ overwrite
         THEN LET entire_balance == Get_balance(cb, account, currency)
                  s1 == add_currency_to_all(s, account, currency)
              IN  IF entire_balance > 0
                  THEN add_to_blacklist(s1, account, entire_balance, currency,
                                        entire_balance)
                  ELSE s1
         ELSE s

Store_add_account_to_blacklist(bl, account) ==
    CASE policy = "Poison" -> Set_add_to_blacklist(bl, account)
      [] policy = "FIFO"   -> FIFO_add_account_to_blacklist(bl, account)
      [] OTHER             -> Dict_add_account_to_blacklist(bl, account)

add_account_to_blacklist(s, cb, address) ==
    LET s1 == [s EXCEPT !.bl = Store_add_account_to_blacklist(@, address)]
        eth_balance == Get_balance(cb, address, ETH)
        s2 == add_to_blacklist(s1, address, eth_balance, ETH, eth_balance)
    IN  fully_taint_token(s2, cb, address, WETH, TRUE)

NewCounters == [incoming |-> 0, outgoing |-> 0, incoming_fee |-> 0, outgoing_fee |-> 0]

\* tt[account][field] += 1, after the entry was created where it was missing
CountTransaction(tt, account, field) ==
    Put(tt, account,
        [(IF account \in DOMAIN tt THEN tt[account] ELSE NewCounters)
            EXCEPT ![field] = @ + 1])

record_tainted_transaction(s, sender, receiver, fee) ==
    [s EXCEPT !.tt =
        CountTransaction(
            CountTransaction(@, sender, IF fee THEN "outgoing_fee" ELSE "outgoing"),
            receiver, IF fee THEN "incoming_fee" ELSE "incoming")]

-----------------------------------------------------------------------------
(* _transfer_taint of the four policies; each returns [s, ret]               *)

\* the credit of the receiver, s1 being the state after the sender's debit
Seniority_credit(s1, to_address, transferred_amount, c2) ==
    IF to_address = None
    THEN [s |-> s1, ret |-> 0]
    ELSE IF to_address = NULL_ADDRESS
         THEN [s |-> s1, ret |-> 0]
         ELSE [s |-> add_to_blacklist(s1, to_address, transferred_amount, c2, None),
               ret |-> transferred_amount]

Seniority_move(s, from_address, to_address, transferred_amount, currency, c2, perm) ==
    IF ~perm /\ transferred_amount = 0
    THEN [s |-> s, ret |-> 0]
    ELSE Seniority_credit(
             IF perm THEN s
             ELSE remove_from_blacklist(s, from_address, transferred_amount, currency).s,
             to_address, transferred_amount, c2)

\* a transfer that would move amount_sent whatever the sender's taint
Seniority_transfer_uncapped(s, from_address, to_address, amount_sent, currency, currency_2) ==
    IF ~is_blacklisted(s, from_address, currency)
    THEN [s |-> s, ret |-> 0]
    ELSE Seniority_move(s, from_address, to_address, amount_sent, currency,
             IF currency_2 = None THEN currency ELSE currency_2,
             is_permanently_tainted(from_address))

Seniority_transfer_taint(s, from_address, to_address, amount_sent, currency, currency_2) ==
    IF ~is_blacklisted(s, from_address, currency)
    THEN [s |-> s, ret |-> 0]
    ELSE Seniority_move(s, from_address, to_address,
             IF is_permanently_tainted(from_address) THEN amount_sent
             ELSE Min(amount_sent, get_blacklist_value(s, from_address, currency)),
             currency,
             IF currency_2 = None THEN currency ELSE currency_2,
             is_permanently_tainted(from_address))

ReversedSeniority_credit(s1, to_address, transferred_amount, c2) ==
    IF to_address = None \/ to_address = NULL_ADDRESS
    THEN [s |-> s1, ret |-> transferred_amount]
    ELSE [s |-> add_to_blacklist(s1, to_address, transferred_amount, c2, None),
          ret |-> transferred_amount]

ReversedSeniority_move(s0, from_address, to_address, transferred_amount, currency, c2, perm) ==
    IF ~perm /\ transferred_amount = 0
    THEN [s |-> s0, ret |-> 0]
    ELSE ReversedSeniority_credit(
             IF perm THEN s0
             ELSE remove_from_blacklist(s0, from_address, transferred_amount, currency).s,
             to_address, transferred_amount, c2)

\* the amount taken oldest taint first, whatever the sender's temp balance
ReversedSeniority_oldest_first(s, tbal, from_address, to_address, amount_sent, currency, c2, perm) ==
    ReversedSeniority_move(
        IF perm THEN s ELSE tbal.s,
        from_address, to_address,
        IF perm THEN amount_sent
        ELSE Min(amount_sent, get_blacklist_value(s, from_address, currency)),
        currency, c2, perm)

\* tbal is the sender's temp balance, fetched unless the sender is permanently tainted
ReversedSeniority_amount(s, tbal, from_address, to_address, amount_sent, currency, c2, perm) ==
    ReversedSeniority_move(
        IF perm THEN s ELSE tbal.s,
        from_address, to_address,
        IF perm THEN amount_sent
        ELSE Max(0, get_blacklist_value(s, from_address, currency)
                        - (tbal.ret - amount_sent)),
        currency, c2, perm)

ReversedSeniority_transfer_taint(s, cb, from_address, to_address, amount_sent, currency, currency_2) ==
    IF ~is_blacklisted(s, from_address, currency)
    THEN [s |-> s, ret |-> 0]
    ELSE ReversedSeniority_amount(s,
             get_temp_balance(s, cb, from_address, currency),
             from_address, to_address, amount_sent, currency,
             IF currency_2 = None THEN currency ELSE currency_2,
             is_permanently_tainted(from_address))

\* r1 = [s, ret, rm] after the sender's debit
FIFO_credit(r1, to_address, amount_sent, currency, c2) ==
    [s   |-> IF (is_blacklisted(r1.s, to_address, currency) \/ r1.ret > 0)
                /\ to_address # None
             THEN add_to_blacklist(r1.s, to_address, r1.ret, c2, amount_sent)
             ELSE r1.s,
     ret |-> r1.ret,
     rm  |-> r1.rm]

\* the record of one call of FIFOBlacklist.remove_from_blacklist
FIFO_removed(s, removal, from_address, currency, sent_amount_tracked) ==
    [s   |-> removal.s,
     ret |-> removal.ret,
     rm  |-> <<[account |-> from_address,
                currency |-> currency,
                queue |-> s.bl[from_address][currency],
                amount |-> sent_amount_tracked,
                ret |-> removal.ret,
                after |-> QueueOf(removal.s.bl, from_address, currency)]>>]

\* a debit of the whole amount sent, whatever part of the balance is untracked
FIFO_debit_untracked_ignored(s, tbal, from_address, amount_sent, currency) ==
    IF amount_sent > 0
    THEN FIFO_removed(s,
             remove_from_blacklist(tbal.s, from_address, amount_sent, currency),
             from_address, currency, amount_sent)
    ELSE [s |-> tbal.s, ret |-> 0, rm |-> << >>]

FIFO_debit(s, tbal, from_address, amount_sent, currency) ==
    LET untracked_balance ==
            tbal.ret - FIFO_get_tracked_value(s.bl, from_address, currency)
        sent_amount_tracked == amount_sent - untracked_balance
    IN  IF sent_amount_tracked > 0
        THEN FIFO_removed(s,
                 remove_from_blacklist(tbal.s, from_address,
                                       sent_amount_tracked, currency),
                 from_address, currency, sent_amount_tracked)
        ELSE [s |-> tbal.s, ret |-> 0, rm |-> << >>]

\* returns [s, ret, rm]
FIFO_transfer_taint(s, cb, from_address, to_address, amount_sent, currency, currency_2) ==
    FIFO_credit(
        IF is_permanently_tainted(from_address)
        THEN [s |-> s, ret |-> amount_sent, rm |-> << >>]
        ELSE IF is_blacklisted(s, from_address, currency)
             THEN FIFO_debit(s, get_temp_balance(s, cb, from_address, currency),
                             from_address, amount_sent, currency)
             ELSE [s |-> s, ret |-> 0, rm |-> << >>],
        to_address, amount_sent, currency,
        IF currency_2 = None THEN currency ELSE currency_2)

Poison_transfer_taint(s, from_address, to_address, amount_sent, currency, currency_2) ==
    IF ~is_blacklisted(s, from_address, currency) \/ is_blacklisted(s, to_address, currency)
    THEN [s |-> s, ret |-> 0]
    ELSE [s |-> add_to_blacklist(s, to_address, 0, "", None), ret |-> 1]

NoRemovals(r) == [s |-> r.s, ret |-> r.ret, rm |-> << >>]

\* returns [s, ret, rm]: rm lists the calls of FIFOBlacklist.remove_from_blacklist
transfer_taint(s, cb, from_address, to_address, amount_sent, currency, currency_2) ==
    CASE policy = "Seniority" ->
           NoRemovals(Seniority_transfer_taint(s, from_address, to_address,
                                               amount_sent, currency, currency_2))
      [] policy = "Reversed Seniority" ->
           NoRemovals(ReversedSeniority_transfer_taint(s, cb, from_address, to_address,
                                                       amount_sent, currency, currency_2))
      [] policy = "FIFO" ->
           FIFO_transfer_taint(s, cb, from_address, to_address, amount_sent,
                               currency, currency_2)
      [] OTHER ->
           NoRemovals(Poison_transfer_taint(s, from_address, to_address,
                                            amount_sent, currency, currency_2))

-----------------------------------------------------------------------------
(* _process_gas_fees of the four policies; each returns the new state.       *)
(* fee = [gasPrice, baseFeePerGas, gasUsed, miner]                           *)

total_fee_paid(fee) == fee.gasPrice * fee.gasUsed
paid_to_miner(fee) == (fee.gasPrice - fee.baseFeePerGas) * fee.gasUsed

\* the older SeniorityPolicy.check_gas_fees: the miner's share is read after the debit
Seniority_check_gas_fees(s, fee, sender) ==
    IF ~is_blacklisted(s, sender, ETH)
    THEN s
    ELSE LET tainted_fee == Min(total_fee_paid(fee), get_blacklist_value(s, sender, ETH))
             s1 == remove_from_blacklist(s, sender, tainted_fee, ETH).s
             tainted_fee_to_miner ==
                 Min(paid_to_miner(fee), get_blacklist_value(s1, sender, ETH))
             s2 == add_to_blacklist(s1, fee.miner, tainted_fee_to_miner, ETH, None)
         IN  record_tainted_transaction(s2, sender, fee.miner, TRUE)

Seniority_process_gas_fees(s, fee, sender) ==
    IF ~is_blacklisted(s, sender, ETH)
    THEN s
    ELSE LET perm == is_permanently_tainted(sender)
             tainted_fee ==
                 IF perm THEN total_fee_paid(fee)
                 ELSE Min(total_fee_paid(fee), get_blacklist_value(s, sender, ETH))
             tainted_fee_to_miner ==
                 IF perm THEN paid_to_miner(fee)
                 ELSE Min(paid_to_miner(fee), get_blacklist_value(s, sender, ETH))
             s1 == IF perm THEN s
                   ELSE remove_from_blacklist(s, sender, tainted_fee, ETH).s
             s2 == add_to_blacklist(s1, fee.miner, tainted_fee_to_miner, ETH, None)
             s3 == reduce_temp_balance(s2, sender, ETH, total_fee_paid(fee))
             s4 == increase_temp_balance(s3, fee.miner, ETH, paid_to_miner(fee))
         IN  record_tainted_transaction(s4, sender, fee.miner, TRUE)

\* a variant that credits the miner its whole share of a tainted fee
ReversedSeniority_process_gas_fees_whole_share(s, cb, fee, sender) ==
    IF ~is_blacklisted(s, sender, ETH)
    THEN s
    ELSE LET perm == is_permanently_tainted(sender)
             blacklist_value == get_blacklist_value(s, sender, ETH)
             tbal == get_temp_balance(s, cb, sender, ETH)
             tainted_fee ==
                 IF perm THEN total_fee_paid(fee)
                 ELSE Max(0, blacklist_value - (tbal.ret - total_fee_paid(fee)))
             s0 == IF perm THEN s ELSE tbal.s
             s1 == reduce_temp_balance(s0, sender, ETH, total_fee_paid(fee))
             s2 == IF s1.err # "" THEN s1
                   ELSE increase_temp_balance(s1, fee.miner, ETH, paid_to_miner(fee))
         IN  IF s2.err # "" \/ tainted_fee = 0
             THEN s2
             ELSE LET s3 == remove_from_blacklist(s2, sender, tainted_fee, ETH).s
                      s4 == add_to_blacklist(s3, fee.miner, paid_to_miner(fee),
                                             ETH, None)
                  IN  record_tainted_transaction(s4, sender, fee.miner, TRUE)

ReversedSeniority_process_gas_fees(s, cb, fee, sender) ==
    IF ~is_blacklisted(s, sender, ETH)
    THEN s
    ELSE LET perm == is_permanently_tainted(sender)
             blacklist_value == get_blacklist_value(s, sender, ETH)
             tbal == get_temp_balance(s, cb, sender, ETH)
             sender_balance == tbal.ret
             tainted_fee ==
                 IF perm THEN total_fee_paid(fee)
                 ELSE Max(0, blacklist_value - (sender_balance - total_fee_paid(fee)))
             tainted_fee_to_miner ==
                 IF perm THEN paid_to_miner(fee)
                 ELSE Min(paid_to_miner(fee), tainted_fee)
             s0 == IF perm THEN s ELSE tbal.s
             s1 == reduce_temp_balance(s0, sender, ETH, total_fee_paid(fee))
             s2 == IF s1.err # "" THEN s1
                   ELSE increase_temp_balance(s1, fee.miner, ETH, paid_to_miner(fee))
         IN  IF s2.err # "" \/ tainted_fee = 0
             THEN s2
             ELSE LET s3 == remove_from_blacklist(s2, sender, tainted_fee, ETH).s
                      s4 == add_to_blacklist(s3, fee.miner, tainted_fee_to_miner,
                                             ETH, None)
                  IN  record_tainted_transaction(s4, sender, fee.miner, TRUE)

\* returns [s, rm]: the steps of FIFOPolicy._process_gas_fees, last first
FIFO_fee_record(s5, sender, fee, tainted_fee) ==
    IF tainted_fee > 0
    THEN record_tainted_transaction(s5, sender, fee.miner, TRUE)
    ELSE s5

FIFO_fee_burnt(r4, rm1, fee, sender, tainted_fee) ==
    [s  |-> FIFO_fee_record(
                reduce_temp_balance(r4.s, sender, ETH,
                                    total_fee_paid(fee) - paid_to_miner(fee)),
                sender, fee, tainted_fee),
     rm |-> rm1 \o r4.rm]

FIFO_fee_ledger(s2, rm1, cb, fee, sender, tainted_fee) ==
    IF s2.err # ""
    THEN [s |-> s2, rm |-> rm1]
    ELSE FIFO_fee_burnt(
             FIFO_transfer_taint(
                 reduce_temp_balance(s2, sender, ETH, paid_to_miner(fee)),
                 cb, sender, None,
                 total_fee_paid(fee) - paid_to_miner(fee), ETH, None),
             rm1, fee, sender, tainted_fee)

FIFO_fee_miner(r1, cb, fee, sender, tainted_fee) ==
    FIFO_fee_ledger(
        increase_temp_balance(r1.s, fee.miner, ETH, paid_to_miner(fee)),
        r1.rm, cb, fee, sender, tainted_fee)

FIFO_process_gas_fees(s, cb, fee, sender) ==
    IF ~(is_blacklisted(s, sender, ETH) \/ is_blacklisted(s, fee.miner, ETH))
    THEN [s |-> s, rm |-> << >>]
    ELSE FIFO_fee_miner(
             FIFO_transfer_taint(s, cb, sender, fee.miner,
                                 paid_to_miner(fee), ETH, None),
             cb, fee, sender, 0)

\* a variant that marks the miner only when part of the fee is paid to it
Poison_process_gas_fees_paid_only(s, fee, sender) ==
    IF ~is_blacklisted(s, sender, ETH) \/ is_blacklisted(s, fee.miner, None)
           \/ paid_to_miner(fee) = 0
    THEN s
    ELSE record_tainted_transaction(add_to_blacklist(s, fee.miner, 0, "", None),
                                    sender, fee.miner, TRUE)

Poison_process_gas_fees(s, fee, sender) ==
    IF ~is_blacklisted(s, sender, ETH) \/ is_blacklisted(s, fee.miner, None)
    THEN s
    ELSE record_tainted_transaction(add_to_blacklist(s, fee.miner, 0, "", None),
                                    sender, fee.miner, TRUE)

\* returns [s, rm]
process_gas_fees(s, cb, fee, sender) ==
    CASE policy = "Seniority" ->
           [s |-> Seniority_process_gas_fees(s, fee, sender), rm |-> << >>]
      [] policy = "Reversed Seniority" ->
           [s |-> ReversedSeniority_process_gas_fees(s, cb, fee, sender), rm |-> << >>]
      [] policy = "FIFO" ->
           FIFO_process_gas_fees(s, cb, fee, sender)
      [] OTHER ->
           [s |-> Poison_process_gas_fees(s, fee, sender), rm |-> << >>]

-----------------------------------------------------------------------------
(* BlacklistPolicy._process_event; returns [s, ret, rm]                      *)
(* event = [event, address, args]: a decoded receipt log, with args          *)
(* [dst, wad], [src, wad] or [from, to, value], or an event made from a      *)
(* trace, with address "ETH" and args [from, to, value]                      *)

\* the setup loop over (transfer_sender, transfer_receiver)
SetupAccount(s, cb, account, currency) ==
    IF account = NULL_ADDRESS
    THEN s
    ELSE add_to_temp_balances(
             IF currency # ETH /\ is_blacklisted(s, account, ALL)
             THEN fully_taint_token(s, cb, account, currency, FALSE)
             ELSE s,
             account, currency)

\* the second ledger update of a conversion, unless the first one raised
Conversion_second(s3, account, value, currency_in) ==
    IF s3.err # ""
    THEN s3
    ELSE IF currency_in = ETH
         THEN increase_temp_balance(s3, account, WETH, value)
         ELSE reduce_temp_balance(s3, account, WETH, value)

\* r = [s, ret, rm] of the conversion's _transfer_taint
Conversion_ledger(r, account, value, currency_in) ==
    [s   |-> Conversion_second(
                 IF currency_in = ETH
                 THEN reduce_temp_balance(r.s, account, ETH, value)
                 ELSE increase_temp_balance(r.s, account, ETH, value),
                 account, value, currency_in),
     ret |-> r.ret,
     rm  |-> r.rm]

\* a conversion whose taint stays in the currency it came from
ProcessConversion_same_currency(s, cb, account, value, currency_in, currency_out) ==
    Conversion_ledger(
        transfer_taint(
            add_to_temp_balances(add_to_temp_balances(s, account, ETH), account, WETH),
            cb, account, account, value, currency_in, currency_in),
        account, value, currency_in)

ProcessConversion(s, cb, account, value, currency_in, currency_out) ==
    Conversion_ledger(
        transfer_taint(
            add_to_temp_balances(add_to_temp_balances(s, account, ETH), account, WETH),
            cb, account, account, value, currency_in, currency_out),
        account, value, currency_in)

Transfer_record(r, transfer_sender, transfer_receiver) ==
    IF r.ret > 0
    THEN record_tainted_transaction(r.s, transfer_sender, transfer_receiver, FALSE)
    ELSE r.s

Transfer_debit(s3, transfer_sender, currency, amount) ==
    IF transfer_sender # NULL_ADDRESS
    THEN reduce_temp_balance(s3, transfer_sender, currency, amount)
    ELSE s3

Transfer_credit(s4, transfer_receiver, currency, amount) ==
    IF s4.err = "" /\ transfer_receiver # NULL_ADDRESS
    THEN increase_temp_balance(s4, transfer_receiver, currency, amount)
    ELSE s4

\* r = [s, ret, rm] of the transfer's _transfer_taint
Transfer_ledger(r, transfer_sender, transfer_receiver, currency, amount) ==
    [s   |-> Transfer_credit(
                 Transfer_debit(
                     Transfer_record(r, transfer_sender, transfer_receiver),
                     transfer_sender, currency, amount),
                 transfer_receiver, currency, amount),
     ret |-> r.ret,
     rm  |-> r.rm]

TransferCurrency(event) ==
    IF event.address # ETH THEN toChecksumAddress(event.address) ELSE event.address

\* the state in which a transfer event calls _transfer_taint
TransferSetup(s, cb, event) ==
    SetupAccount(
        SetupAccount(s, cb, event.args.from, TransferCurrency(event)),
        cb, event.args.to, TransferCurrency(event))

ProcessTransfer(s, cb, event) ==
    Transfer_ledger(
        transfer_taint(
            TransferSetup(s, cb, event),
            cb, event.args.from, event.args.to, event.args.value,
            TransferCurrency(event), None),
        event.args.from, event.args.to, TransferCurrency(event), event.args.value)

IsTransfer(event) == event.event \notin {"Deposit", "Withdrawal"}

process_event(s, cb, event) ==
    IF event.event = "Deposit"
    THEN IF "dst" \notin DOMAIN event.args
         THEN [s |-> [s EXCEPT !.err = "KeyError"], ret |-> 0, rm |-> << >>]
         ELSE IF ~is_weth(event.address)
              THEN [s |-> s, ret |-> 0, rm |-> << >>]
              ELSE ProcessConversion(s, cb, event.args.dst, event.args.wad, ETH, WETH)
    ELSE IF event.event = "Withdrawal"
    THEN IF "src" \notin DOMAIN event.args
         THEN [s |-> [s EXCEPT !.err = "KeyError"], ret |-> 0, rm |-> << >>]
         ELSE IF ~is_weth(event.address)
              THEN [s |-> s, ret |-> 0, rm |-> << >>]
              ELSE ProcessConversion(s, cb, event.args.src, event.args.wad, WETH, ETH)
    ELSE ProcessTransfer(s, cb, event)

-----------------------------------------------------------------------------
(* Inputs of the policy engine *)

Policies == {"Poison", "Seniority", "Reversed Seniority", "FIFO"}

Amounts == 0..MaxAmount

TransferLogs ==
    {[event |-> "Transfer", address |-> c, args |-> [from |-> f, to |-> t, value |-> v]] :
        c \in {WETH, TOKEN}, f \in Addresses, t \in Addresses, v \in Amounts}

InternalTransactions ==
    {[event |-> "Internal Transaction", address |-> ETH,
      args |-> [from |-> f, to |-> t, value |-> v]] :
        f \in Accounts, t \in Addresses, v \in 1..MaxAmount}

\* a Deposit or Withdrawal log comes from WETH or from some other contract
DepositLogs ==
    {[event |-> "Deposit", address |-> WETH, args |-> [dst |-> a, wad |-> v]] :
        a \in Accounts, v \in Amounts}
    \cup
    {[event |-> "Deposit", address |-> TOKEN, args |-> [dst |-> a, wad |-> 1]] :
        a \in Accounts}

WithdrawalLogs ==
    {[event |-> "Withdrawal", address |-> WETH, args |-> [src |-> a, wad |-> v]] :
        a \in Accounts, v \in Amounts}
    \cup
    {[event |-> "Withdrawal", address |-> TOKEN, args |-> [src |-> a, wad |-> 1]] :
        a \in Accounts}

\* internal_transaction_to_event names a trace to or from WETH Deposit or Withdrawal
WethTraces ==
    {[event |-> "Deposit", address |-> ETH,
      args |-> [from |-> a, to |-> WETH, value |-> 1]] : a \in Accounts}
    \cup
    {[event |-> "Withdrawal", address |-> ETH,
      args |-> [from |-> WETH, to |-> a, value |-> 1]] : a \in Accounts}

Events == TransferLogs \cup InternalTransactions \cup DepositLogs
              \cup WithdrawalLogs \cup WethTraces

\* effectiveGasPrice is never below the block's base fee
GasUsed == 1
Fees ==
    {fee \in [gasPrice : 0..MaxGasPrice, baseFeePerGas : 0..MaxGasPrice,
               gasUsed : {GasUsed}, miner : Addresses] :
        fee.baseFeePerGas <= fee.gasPrice}

\* a chain view: the balances answered so far, vals for the keys asked now
NoAnswers == << >>

ChainView(vals) ==
    [k \in BalanceKeys |->
        IF k \in DOMAIN chain_balance THEN chain_balance[k]
        ELSE IF k \in DOMAIN vals THEN vals[k] ELSE 0]

Answers(keys) == [keys \ DOMAIN chain_balance -> 0..MaxBalance]

AllList(bl, account) ==
    IF policy # "Poison" /\ account \in DOMAIN bl /\ ALL \in DOMAIN bl[account]
    THEN bl[account][ALL]
    ELSE << >>

Fetched(tb, account) ==
    IF account \in DOMAIN tb THEN tb[account].fetched ELSE {}

\* the balances a handler asked the chain source for, going from state s to t
KeysRead(s, t) ==
    {k \in BalanceKeys :
        \/ k[2] \in Fetched(t.tb, k[1]) \ Fetched(s.tb, k[1])
        \/ Len(AllList(t.bl, k[1])) > Len(AllList(s.bl, k[1]))
           /\ AllList(t.bl, k[1])[Len(AllList(t.bl, k[1]))] = k[2]}

Reveal(cb, keys) ==
    [k \in (DOMAIN chain_balance) \cup keys |->
        IF k \in DOMAIN chain_balance THEN chain_balance[k] ELSE cb[k]]

State == [bl |-> blacklist, tb |-> temp_balances, tt |-> tainted_transactions,
          err |-> error]

Install(s) ==
    /\ blacklist' = s.bl
    /\ temp_balances' = s.tb
    /\ tainted_transactions' = s.tt
    /\ error' = s.err

-----------------------------------------------------------------------------
(* The policy engine: seeding, then events and gas fees block by block       *)

InitPropagatorIdle ==
    /\ chain = << >>
    /\ pc = "engine"
    /\ current_block = -1
    /\ loop_start_block = 0
    /\ next_block = 0
    /\ checkpoint = NoFile
    /\ processed = << >>
    /\ resumed = FALSE
    /\ current_tx = ""
    /\ reverted_traces = << >>

\* the policy object after construction, but for its permanent-taint flags
InitPolicyObject ==
    /\ blacklist = IF policy = "Poison" THEN {} ELSE EmptyDict
    /\ temp_balances = EmptyDict
    /\ tainted_transactions = EmptyDict
    /\ chain_balance = EmptyDict
    /\ error = ""
    /\ last = [op |-> "init"]
    /\ steps = 0

InitEngine ==
    /\ InitPolicyObject
    /\ permanent = {}

Init ==
    /\ policy \in Policies
    /\ InitEngine
    /\ InitPropagatorIdle

\* _process_event: whether the event reaches a _transfer_taint call, and the
\* call's arguments [from, to, amount, currency, currency_2]
CallsTransferTaint(event) ==
    IF event.event = "Deposit" THEN "dst" \in DOMAIN event.args /\ is_weth(event.address)
    ELSE IF event.event = "Withdrawal"
         THEN "src" \in DOMAIN event.args /\ is_weth(event.address)
         ELSE TRUE

TransferTaintCall(event) ==
    IF event.event = "Deposit"
    THEN [from |-> event.args.dst, to |-> event.args.dst, amount |-> event.args.wad,
          currency |-> ETH, currency_2 |-> WETH]
    ELSE IF event.event = "Withdrawal"
         THEN [from |-> event.args.src, to |-> event.args.src, amount |-> event.args.wad,
               currency |-> WETH, currency_2 |-> ETH]
         ELSE [from |-> event.args.from, to |-> event.args.to,
               amount |-> event.args.value,
               currency |-> TransferCurrency(event),
               currency_2 |-> TransferCurrency(event)]

\* the state in which the event calls _transfer_taint
CallState(s, cb, event) ==
    IF IsTransfer(event)
    THEN TransferSetup(s, cb, event)
    ELSE add_to_temp_balances(
             add_to_temp_balances(s, TransferTaintCall(event).from, ETH),
             TransferTaintCall(event).from, WETH)

\* what _get_temp_balance answers for the sender when _transfer_taint reads
\* it (Reversed Seniority and FIFO, for a blacklisted sender that is not
\* permanently tainted), 0 when it is not read
SenderTempBalance(s, cb, event) ==
    IF /\ CallsTransferTaint(event)
       /\ UsesTempBalances
       /\ ~is_permanently_tainted(TransferTaintCall(event).from)
       /\ is_blacklisted(CallState(s, cb, event), TransferTaintCall(event).from,
                         TransferTaintCall(event).currency)
    THEN get_temp_balance(CallState(s, cb, event), cb, TransferTaintCall(event).from,
                          TransferTaintCall(event).currency).ret
    ELSE 0

\* the state and the record an event leaves, r = [s, ret, rm] being its result;
\* before is the blacklist when the event arrives, at the blacklist when its
\* _transfer_taint is called
EventDone(event, cb, r) ==
    /\ Install(r.s)
    /\ chain_balance' = Reveal(cb, KeysRead(State, r.s))
    /\ last' = [op |-> "event", event |-> event, before |-> blacklist,
                at |-> IF IsTransfer(event)
                       THEN TransferSetup(State, cb, event).bl
                       ELSE blacklist,
                x |-> SenderTempBalance(State, cb, event),
                ret |-> r.ret, rm |-> r.rm]

GasFeesDone(fee, sender, cb, r) ==
    /\ Install(r.s)
    /\ chain_balance' = Reveal(cb, KeysRead(State, r.s))
    /\ last' = [op |-> "gas", fee |-> fee, sender |-> sender, before |-> blacklist,
                rm |-> r.rm]

CanStep == pc = "engine" /\ error = "" /\ steps < MaxSteps

\* main seeds the blacklist before it propagates
Seeded == last.op # "init"

\* the seed list of a run is a prefix of SeedList
SeedList == <<"0xAAA", "0xBBB">>

NextSeed ==
    IF last.op = "init" THEN {SeedList[1]}
    ELSE IF last.op = "seed"
         THEN {SeedList[i] : i \in {j \in DOMAIN SeedList : j > 1 /\ SeedList[j - 1] = last.account}}
         ELSE {}

\* main: the seed accounts are added before the first block
AddAccountToBlacklist ==
    /\ CanStep
    /\ \E a \in NextSeed :
       \E vals \in Answers({<<a, ETH>>} \cup
                           (IF policy = "Poison" THEN {} ELSE {<<a, WETH>>})) :
          /\ Install(add_account_to_blacklist(State, ChainView(vals), a))
          /\ chain_balance' = Reveal(ChainView(vals), {<<a, ETH>>} \cup
                                   (IF policy = "Poison" THEN {} ELSE {<<a, WETH>>}))
          /\ last' = [op |-> "seed", account |-> a]
    /\ steps' = steps + 1
    /\ UNCHANGED <<policy, permanent>>
    /\ UNCHANGED propVars

ProcessEvent ==
    /\ CanStep
    /\ Seeded
    /\ \E event \in Events :
       \E vals \in Answers(KeysRead(State,
                             process_event(State, ChainView(NoAnswers), event).s)) :
          EventDone(event, ChainView(vals),
                    process_event(State, ChainView(vals), event))
    /\ steps' = steps + 1
    /\ UNCHANGED <<policy, permanent>>
    /\ UNCHANGED propVars

ProcessGasFees ==
    /\ CanStep
    /\ Seeded
    /\ \E fee \in Fees, sender \in Accounts :
       \E vals \in Answers(KeysRead(State,
                 process_gas_fees(State, ChainView(NoAnswers), fee, sender).s)) :
          GasFeesDone(fee, sender, ChainView(vals),
                      process_gas_fees(State, ChainView(vals), fee, sender))
    /\ steps' = steps + 1
    /\ UNCHANGED <<policy, permanent>>
    /\ UNCHANGED propVars

\* _process_block starts the next block with an empty ledger
NextBlock ==
    /\ CanStep
    /\ last.op \in {"event", "gas"}
    /\ temp_balances' = EmptyDict
    /\ chain_balance' = EmptyDict
    /\ last' = [op |-> "block"]
    /\ steps' = steps + 1
    /\ UNCHANGED <<policy, blacklist, tainted_transactions, permanent, error>>
    /\ UNCHANGED propVars

Next == AddAccountToBlacklist \/ ProcessEvent \/ ProcessGasFees \/ NextBlock

Spec == Init /\ [][Next]_vars

\* the engine under one policy
InitPoison == policy = "Poison" /\ InitEngine /\ InitPropagatorIdle
InitSeniority == policy = "Seniority" /\ InitEngine /\ InitPropagatorIdle
InitReversedSeniority ==
    policy = "Reversed Seniority" /\ InitEngine /\ InitPropagatorIdle
InitFIFO == policy = "FIFO" /\ InitEngine /\ InitPropagatorIdle

SpecPoison == InitPoison /\ [][Next]_vars
SpecSeniority == InitSeniority /\ [][Next]_vars
SpecReversedSeniority == InitReversedSeniority /\ [][Next]_vars
SpecFIFO == InitFIFO /\ [][Next]_vars

\* the engine of the three policies that ask is_permanently_tainted, with an
\* account flagged by permanently_taint_account before the propagation; the
\* flagged account is the second of the seed list, so that it is a seed in
\* some runs and not in others
PermanentAccounts == {"0xBBB"}

InitPermanent ==
    /\ policy \in {"Seniority", "Reversed Seniority", "FIFO"}
    /\ InitPolicyObject
    /\ permanent = PermanentAccounts
    /\ InitPropagatorIdle

SpecPermanent == InitPermanent /\ [][Next]_vars

-----------------------------------------------------------------------------
(* HaircutPolicy (policy_haircut.py): check_transaction keeps a temp balance *)
(* ledger and a temp blacklist of its own while it walks the transfer        *)
(* events of one transaction, and commits the temp blacklist at the end.     *)
(*   h = [s, tbal, tbl, events, n, i, trace, read]                           *)
(*   s the policy state, tbal temp_balances, tbl temp_blacklist, events the  *)
(*   transfer_events list, n original_length, i the next index (from 1),     *)
(*   trace one record per loop pass, read the balances asked of the chain    *)

DelayThreshold == 1000

\* int(n / d) of Python: the quotient truncated towards zero
IntTrunc(n, d) ==
    IF (n >= 0) = (d > 0) THEN Abs(n) \div Abs(d) ELSE -(Abs(n) \div Abs(d))

\* t / b > 1 for b # 0
ProportionAboveOne(t, b) == IF b > 0 THEN t > b ELSE t < b

TempValue(tbl, account, currency) ==
    IF account \in DOMAIN tbl /\ currency \in DOMAIN tbl[account]
    THEN tbl[account][currency]
    ELSE 0

SetTempValue(tbl, account, currency, value) ==
    Put(tbl, account,
        Put(IF account \in DOMAIN tbl THEN tbl[account] ELSE EmptyDict, currency, value))

Haircut_currency(event) == IF is_eth(event.address) THEN ETH ELSE event.address

\* the setup loop: "all" flag, temp balances, temp blacklist
Haircut_setup_taint(h, cb, account, currency) ==
    IF currency # ETH /\ is_blacklisted(h.s, account, ALL)
    THEN [h EXCEPT !.s = fully_taint_token(@, cb, account, currency, FALSE),
                   !.read = IF InList(currency, get_blacklist_value(h.s, account, ALL))
                            THEN @
                            ELSE @ \cup {<<account, currency>>}]
    ELSE h

Haircut_setup_temp(h, account, currency) ==
    [h EXCEPT
        !.tbal = IF account \in DOMAIN @ /\ currency \in DOMAIN @[account].bal
                 THEN @
                 ELSE Put(@, account,
                          [bal |-> Put(IF account \in DOMAIN @ THEN @[account].bal
                                       ELSE EmptyDict, currency, 0),
                           fetched |-> IF account \in DOMAIN @ THEN @[account].fetched
                                       ELSE {}]),
        !.tbl = IF is_blacklisted(h.s, account, currency)
                   /\ ~(account \in DOMAIN @ /\ currency \in DOMAIN @[account])
                THEN SetTempValue(@, account, currency,
                                  get_blacklist_value(h.s, account, currency))
                ELSE @]

Haircut_setup(h, cb, account, currency) ==
    IF account = NULL_ADDRESS
    THEN h
    ELSE Haircut_setup_temp(Haircut_setup_taint(h, cb, account, currency),
                            account, currency)

\* temp_transfer: fetch sender balance
Haircut_fetch(h, cb, sender, currency) ==
    IF currency \notin h.tbal[sender].fetched
    THEN [h EXCEPT
            !.tbal = Put(@, sender,
                         [bal |-> Put(@[sender].bal, currency,
                                      @[sender].bal[currency] + cb[<<sender, currency>>]),
                          fetched |-> @[sender].fetched \cup {currency}]),
            !.read = @ \cup {<<sender, currency>>}]
    ELSE h

\* temp_transfer from "temp_blacklist[sender][currency] -= transferred_amount" on;
\* t is the sender's temp taint, cut to the temp balance where the code does so
temp_transfer_move(h, sender, receiver, currency, t, transferred_amount) ==
    [h |-> [h EXCEPT !.tbl =
               IF receiver = NULL_ADDRESS
               THEN SetTempValue(@, sender, currency, t - transferred_amount)
               ELSE SetTempValue(
                        SetTempValue(@, sender, currency, t - transferred_amount),
                        receiver, currency,
                        TempValue(SetTempValue(@, sender, currency, t - transferred_amount),
                                  receiver, currency) + transferred_amount)],
     delay |-> FALSE]

\* temp_transfer without the branches for a zero or too small temp balance
temp_transfer_unchecked(h, sender, receiver, currency, amount, delayed) ==
    IF h.tbal[sender].bal[currency] = 0
    THEN [h |-> h, delay |-> FALSE]
    ELSE temp_transfer_move(h, sender, receiver, currency, h.tbl[sender][currency],
             Min(IntTrunc(amount * h.tbl[sender][currency],
                          h.tbal[sender].bal[currency]), amount))

\* temp_transfer once the sender's balance is fetched; returns [h, delay]
temp_transfer_fetched(h, sender, receiver, currency, amount, delayed) ==
    LET t == h.tbl[sender][currency]
        b == h.tbal[sender].bal[currency]
    IN  IF b = 0
        THEN IF t > DelayThreshold /\ ~delayed
             THEN [h |-> h, delay |-> TRUE]
             ELSE [h |-> [h EXCEPT !.tbl = SetTempValue(@, sender, currency, 0)],
                   delay |-> FALSE]
        ELSE IF ProportionAboveOne(t, b)
             THEN IF delayed
                  THEN temp_transfer_move(h, sender, receiver, currency,
                                          t - (t - b), amount)
                  ELSE [h |-> h, delay |-> TRUE]
             ELSE temp_transfer_move(h, sender, receiver, currency, t,
                                     Min(IntTrunc(amount * t, b), amount))

\* returns [h, delay]
temp_transfer(h, cb, sender, receiver, currency, amount, delayed) ==
    IF sender \in DOMAIN h.tbl /\ currency \in DOMAIN h.tbl[sender]
       /\ h.tbl[sender][currency] > 0
    THEN temp_transfer_fetched(Haircut_fetch(h, cb, sender, currency),
                               sender, receiver, currency, amount, delayed)
    ELSE [h |-> h, delay |-> FALSE]

\* the end of one pass of the event loop; h1 is the state after the setup,
\* r = [h, delay] the result of temp_transfer
Haircut_event_done(h1, r, event, currency) ==
    [r.h EXCEPT
        !.i = @ + 1,
        !.events = IF r.delay THEN Append(@, event) ELSE @,
        !.tbal =
            IF r.delay THEN @
            ELSE LET t1 == IF event.args.from # NULL_ADDRESS
                           THEN Put(@, event.args.from,
                                    [@[event.args.from] EXCEPT
                                        !.bal[currency] = @ - event.args.value])
                           ELSE @
                 IN  IF event.args.to # NULL_ADDRESS
                     THEN Put(t1, event.args.to,
                              [t1[event.args.to] EXCEPT
                                  !.bal[currency] = @ + event.args.value])
                     ELSE t1,
        !.trace = Append(@, [event   |-> event,
                             delayed |-> h1.i > h1.n,
                             delay   |-> r.delay,
                             bl      |-> h1.s.bl,
                             before  |-> h1.tbl,
                             balance |-> r.h.tbal,
                             after   |-> r.h.tbl])]

Haircut_event_transfer(h1, cb, event, currency) ==
    Haircut_event_done(h1,
        temp_transfer(h1, cb, event.args.from, event.args.to, currency,
                      event.args.value, h1.i > h1.n),
        event, currency)

Haircut_event(h, cb, event) ==
    Haircut_event_transfer(
        Haircut_setup(
            Haircut_setup(h, cb, event.args.from, Haircut_currency(event)),
            cb, event.args.to, Haircut_currency(event)),
        cb, event, Haircut_currency(event))

\* for index, transfer_event in enumerate(transfer_events)
RECURSIVE Haircut_loop(_, _)
Haircut_loop(h, cb) ==
    IF h.i > Len(h.events)
    THEN h
    ELSE Haircut_loop(Haircut_event(h, cb, h.events[h.i]), cb)

\* the commit of one temp blacklist entry
Haircut_commit_one(s, account, currency, value) ==
    IF is_blacklisted(s, account, currency)
    THEN LET difference == value - get_blacklist_value(s, account, currency)
         IN  IF difference = 0
             THEN s
             ELSE IF difference > 0
                  THEN add_to_blacklist(s, account, difference, currency, None)
                  ELSE remove_from_blacklist(s, account, difference, currency).s
    ELSE IF value > 0
         THEN add_to_blacklist(s, account, value, currency, None)
         ELSE s

TempKeys(tbl) == {k \in Addresses \X Currencies :
                     k[1] \in DOMAIN tbl /\ k[2] \in DOMAIN tbl[k[1]]}

RECURSIVE Haircut_commit(_, _, _)
Haircut_commit(s, tbl, keys) ==
    IF keys = {}
    THEN s
    ELSE LET k == CHOOSE x \in keys : TRUE
         IN  Haircut_commit(Haircut_commit_one(s, k[1], k[2], tbl[k[1]][k[2]]),
                            tbl, keys \ {k})

\* check_gas_fees; the divisions raise ZeroDivisionError on a zero divisor
Haircut_check_gas_fees(s, cb, fee, sender) ==
    IF total_fee_paid(fee) = 0 \/ cb[<<sender, ETH>>] = 0
    THEN [s EXCEPT !.err = "ZeroDivisionError"]
    ELSE LET tainted_fee ==
                 IntTrunc(total_fee_paid(fee) * get_blacklist_value(s, sender, ETH),
                          cb[<<sender, ETH>>])
             tainted_fee_to_miner ==
                 IntTrunc(tainted_fee * paid_to_miner(fee), total_fee_paid(fee))
         IN  add_to_blacklist(
                 remove_from_blacklist(s, sender, tainted_fee, ETH).s,
                 fee.miner, tainted_fee_to_miner, ETH, None)

\* transfer_taint, used for a transaction without logs; exit(-1) on balance 0
Haircut_transfer_taint(s, cb, from_address, to_address, amount_sent, currency) ==
    IF cb[<<from_address, currency>>] = 0
    THEN [s EXCEPT !.err = "exit"]
    ELSE LET balance == cb[<<from_address, currency>>]
             value == get_blacklist_value(s, from_address, currency)
             transferred_amount ==
                 IF ProportionAboveOne(value, balance)
                 THEN amount_sent
                 ELSE IntTrunc(amount_sent * value, balance)
             s1 == IF ProportionAboveOne(value, balance)
                   THEN remove_from_blacklist(s, from_address, value - value, currency).s
                   ELSE s
         IN  IF to_address = NULL_ADDRESS
             THEN remove_from_blacklist(s1, from_address, transferred_amount, currency).s
             ELSE add_to_blacklist(
                      remove_from_blacklist(s1, from_address, transferred_amount,
                                            currency).s,
                      to_address, transferred_amount, currency, None)

\* the merge of the internal transactions into the Transfer logs
Haircut_transfer_events(tx) ==
    IF tx.internal # << >> /\ tx.value # 0
    THEN <<tx.internal[1]>> \o tx.logs \o Tail(tx.internal)
    ELSE tx.logs \o tx.internal

Haircut_committed(h) ==
    [s |-> Haircut_commit(h.s, h.tbl, TempKeys(h.tbl)), trace |-> h.trace, read |-> h.read]

\* check_transaction after the gas fees; returns [s, trace, read]
Haircut_after_fees(s1, cb, tx, read) ==
    IF s1.err # "" \/ is_eth(tx.to)
    THEN [s |-> s1, trace |-> << >>, read |-> read]
    ELSE IF tx.logs = << >>
         THEN IF tx.value > 0 /\ is_blacklisted(s1, tx.from, ETH)
              THEN [s |-> Haircut_transfer_taint(s1, cb, tx.from, tx.to, tx.value, ETH),
                    trace |-> << >>, read |-> read \cup {<<tx.from, ETH>>}]
              ELSE [s |-> s1, trace |-> << >>, read |-> read]
         ELSE Haircut_committed(
                  Haircut_loop([s |-> s1, tbal |-> EmptyDict, tbl |-> EmptyDict,
                                events |-> Haircut_transfer_events(tx),
                                n |-> Len(Haircut_transfer_events(tx)),
                                i |-> 1, trace |-> << >>, read |-> read], cb))

\* tx = [from, to, value, logs, internal, fee]; returns [s, trace, read]
Haircut_check_transaction(s, cb, tx) ==
    IF is_blacklisted(s, tx.from, ETH)
    THEN Haircut_after_fees(Haircut_check_gas_fees(s, cb, tx.fee, tx.from), cb, tx,
                            IF total_fee_paid(tx.fee) = 0 THEN {} ELSE {<<tx.from, ETH>>})
    ELSE Haircut_after_fees(s, cb, tx, {})

-----------------------------------------------------------------------------
(* The Haircut engine: seed accounts, then one transaction per block         *)

MaxTransactions == 1    \* transactions per behaviour of the Haircut engine

HaircutEvents ==
    {e \in TransferLogs : e.args.from # NULL_ADDRESS /\ e.args.from # e.args.to}

\* the Transfer logs of one transaction: up to MaxEvents events of one token
HaircutLogs ==
    UNION {{l \in [1..n -> HaircutEvents] :
               \A i \in 1..n : l[i].address = l[1].address} : n \in 1..MaxEvents}

\* a plain ETH transfer, also to WETH, and a contract call that emits logs
PlainTransactions ==
    [from : Accounts, to : Accounts \cup {WETH_LOWER}, value : Amounts,
     logs : {<< >>}, internal : {<< >>}, fee : Fees]

ContractCalls ==
    [from : Accounts, to : {TOKEN}, value : {0},
     logs : HaircutLogs, internal : {<< >>},
     fee : {fee \in Fees : /\ fee.miner = "0xBBB"
                            /\ fee.gasPrice = MaxGasPrice
                            /\ fee.baseFeePerGas = 0}]

Transactions == PlainTransactions \cup ContractCalls

\* every balance 1: the chain view under which the balances asked are found
ProbeView == [k \in BalanceKeys |-> 1]

BlockView(vals) == [k \in BalanceKeys |-> IF k \in DOMAIN vals THEN vals[k] ELSE 0]

BlockAnswers(keys) == [keys -> 0..MaxBalance]

InitHaircut ==
    /\ policy = "Haircut"
    /\ InitEngine
    /\ chain = << >>
    /\ pc = "haircut"
    /\ current_block = -1
    /\ loop_start_block = 0
    /\ next_block = 0
    /\ checkpoint = NoFile
    /\ processed = << >>
    /\ resumed = FALSE
    /\ current_tx = ""
    /\ reverted_traces = << >>

\* the seed list of a Haircut run
HaircutSeeds == {"0xAAA"}

HaircutAddAccount ==
    /\ pc = "haircut"
    /\ \E a \in NextSeed \cap HaircutSeeds :
       \E vals \in BlockAnswers({<<a, ETH>>, <<a, WETH>>}) :
          /\ Install(add_account_to_blacklist(State, BlockView(vals), a))
          /\ chain_balance' = vals
          /\ last' = [op |-> "seed", account |-> a]
    /\ UNCHANGED <<policy, permanent, steps>>
    /\ UNCHANGED propVars

\* r = [s, trace, read] is the result of check_transaction
HaircutDone(tx, vals, r) ==
    /\ Install(r.s)
    /\ chain_balance' = [k \in r.read \cap DOMAIN vals |-> vals[k]]
    /\ last' = [op |-> "tx", tx |-> tx, before |-> blacklist, trace |-> r.trace]

\* the transaction opens a new block: the balances are those of that block
HaircutCheckTransaction ==
    /\ pc = "haircut"
    /\ error = ""
    /\ Seeded
    /\ steps < MaxTransactions
    /\ \E tx \in Transactions :
       \E vals \in BlockAnswers(Haircut_check_transaction(State, ProbeView, tx).read) :
          HaircutDone(tx, vals, Haircut_check_transaction(State, BlockView(vals), tx))
    /\ steps' = steps + 1
    /\ UNCHANGED <<policy, permanent>>
    /\ UNCHANGED propVars

NextHaircut == HaircutAddAccount \/ HaircutCheckTransaction

SpecHaircut == InitHaircut /\ [][NextHaircut]_vars

-----------------------------------------------------------------------------
(* Haircut: a transfer event of amount 0                                     *)

\* the last step was a transaction whose only Transfer log has value 0
HaircutZeroTransfer ==
    /\ last.op = "tx"
    /\ error = ""
    /\ Len(last.tx.logs) = 1
    /\ last.tx.logs[1].args.value = 0
    /\ last.trace # << >>

\* the event's sender and currency, the sender's taint t after the setup of the
\* event and its temp balance b once fetched
ZeroSender == last.tx.logs[1].args.from
ZeroCurrency == Haircut_currency(last.tx.logs[1])
ZeroTaint == Dict_get_account_blacklist_value(last.trace[1].bl, ZeroSender, ZeroCurrency)
ZeroBalance == last.trace[1].balance[ZeroSender].bal[ZeroCurrency]

-----------------------------------------------------------------------------
(* Haircut: the proportional split of one transfer event                     *)

\* the last step was a transaction with one Transfer log whose sender holds
\* taint T > 0 after the setup of the event and temp balance S > 0 once fetched
SplitEvent == last.tx.logs[1]
SplitCurrency == Haircut_currency(SplitEvent)
SplitTaint ==
    Dict_get_account_blacklist_value(last.trace[1].bl, SplitEvent.args.from, SplitCurrency)
SplitBalance == last.trace[1].balance[SplitEvent.args.from].bal[SplitCurrency]

HaircutSplitTransfer ==
    /\ last.op = "tx"
    /\ error = ""
    /\ Len(last.tx.logs) = 1
    /\ last.trace # << >>
    /\ SplitTaint > 0
    /\ SplitBalance > 0

\* floor(amount_sent * T / S)
SplitTransferred == (SplitEvent.args.value * SplitTaint) \div SplitBalance

\* C11: a transfer of amount_sent by a sender with taint T and temp balance S
\* moves floor(amount_sent * T / S): the sender's value decreases by it, the
\* receiver's value increases by it unless the receiver is the null address,
\* and no other value changes
C11_HaircutSplit ==
    HaircutSplitTransfer =>
        \A a \in Addresses, c \in Currencies :
            Dict_get_account_blacklist_value(blacklist, a, c)
                = Dict_get_account_blacklist_value(last.trace[1].bl, a, c)
                  - (IF a = SplitEvent.args.from /\ c = SplitCurrency
                     THEN SplitTransferred ELSE 0)
                  + (IF a = SplitEvent.args.to /\ a # NULL_ADDRESS /\ c = SplitCurrency
                     THEN SplitTransferred ELSE 0)

-----------------------------------------------------------------------------
(* Every policy in one specification: the engine of the four policies of     *)
(* policies/ and the engine of HaircutPolicy                                 *)

InitAll == Init \/ InitHaircut

NextAll == Next \/ NextHaircut

SpecAll == InitAll /\ [][NextAll]_vars

-----------------------------------------------------------------------------
(* The stores                                                                *)

OperationDone == last.op # "init"

StoredCurrencies(account) == DOMAIN blacklist[account] \ {ALL}

\* C3 as stated: after every mutation of a DictBlacklist or FIFOBlacklist no
\* (account, currency) entry holds tainted value 0, and no account is left
\* whose per-currency map is empty once the "all" key is ignored.
C3_PurgeInvariant ==
    (policy # "Poison" /\ OperationDone) =>
        \A a \in DOMAIN blacklist :
            /\ StoredCurrencies(a) # {}
            /\ \A c \in StoredCurrencies(a) : get_blacklist_value(State, a, c) # 0

\* C4: under every policy, whatever events and gas fees were processed, the
\* null address is not blacklisted (it is never a seed account).
C4_NullAddressNeverBlacklisted ==
    ~is_blacklisted(State, NULL_ADDRESS, None)

\* a tainted account has just burnt tokens, or paid the null address as miner
C4_Witness ==
    /\ ~is_blacklisted(State, NULL_ADDRESS, None)
    /\ \/ /\ last.op = "event"
          /\ last.event.event = "Transfer"
          /\ last.event.args.to = NULL_ADDRESS
          /\ last.event.args.value > 0
          /\ last.ret > 0
       \/ /\ last.op = "gas"
          /\ last.fee.miner = NULL_ADDRESS
          /\ paid_to_miner(last.fee) > 0
          /\ policy = "Poison"
          /\ last.sender \in blacklist

-----------------------------------------------------------------------------
(* FIFOBlacklist.remove_from_blacklist, as called by the last operation:     *)
(* each record of last.rm holds the queue before the call, the amount, the   *)
(* value returned and the queue after the call                               *)

Removals == IF last.op \in {"event", "gas"} THEN last.rm ELSE << >>

\* a call remove_from_blacklist(account, S, currency) with 0 < S <= T1
WithinFirstPair(r) ==
    /\ r.queue # << >>
    /\ 0 < r.amount
    /\ r.amount <= r.queue[1][2]

\* the queue behind the first pair [t1, T1] once S of T1 is consumed
RestOfQueue(r) ==
    IF r.amount = r.queue[1][2] THEN r.after ELSE Tail(r.after)

Taint(q) == SumSeq(q, 1)

\* C5 as stated: with 0 < S <= T1 the call returns min(t1, S) and no pair
\* other than the first is changed or removed.
C5_ReturnsMinOfHeadTaintAndAmount ==
    \A i \in DOMAIN Removals :
        WithinFirstPair(Removals[i]) =>
            /\ Removals[i].ret = Min(Removals[i].queue[1][1], Removals[i].amount)
            /\ Removals[i].after # << >>  \/ Removals[i].amount = Removals[i].queue[1][2]
            /\ RestOfQueue(Removals[i]) = Tail(Removals[i].queue)

\* C5 amended: with 0 < S <= T1 the untainted part T1 - t1 of the first pair
\* is consumed first, so the call returns t1 - min(t1, T1 - S); the pairs
\* behind the first are untouched, unless no taint is left in the queue, in
\* which case the whole queue is removed.
C5_ReturnsTaintBeyondUntaintedPart ==
    \A i \in DOMAIN Removals :
        WithinFirstPair(Removals[i]) =>
            /\ Removals[i].ret =
                   Removals[i].queue[1][1]
                       - Min(Removals[i].queue[1][1],
                             Removals[i].queue[1][2] - Removals[i].amount)
            /\ IF Taint(Removals[i].queue) - Removals[i].ret = 0
               THEN Removals[i].after = << >>
               ELSE /\ Removals[i].after # << >>
                    /\ RestOfQueue(Removals[i]) = Tail(Removals[i].queue)
                    /\ Removals[i].amount < Removals[i].queue[1][2] =>
                           Removals[i].after[1] =
                               <<Removals[i].queue[1][1] - Removals[i].ret,
                                 Removals[i].queue[1][2] - Removals[i].amount>>

\* a call within a first pair that is only partly tainted, with pairs behind it
C5_Witness ==
    \E i \in DOMAIN Removals :
        /\ WithinFirstPair(Removals[i])
        /\ Removals[i].queue[1][1] < Removals[i].queue[1][2]
        /\ Removals[i].queue[1][1] > 0
        /\ Removals[i].ret < Min(Removals[i].queue[1][1], Removals[i].amount)
        /\ Len(Removals[i].queue) > 1

\* the loop C6 describes: the pair at the head loses consumed = min(amount, T)
\* of its total and keeps min(t, T - consumed) of its taint, is popped when
\* its total reaches 0, and the loop goes on with what is left of the amount
RECURSIVE HeadConsumption(_, _, _)
HeadConsumption(q, amount, taken) ==
    IF q = << >> \/ amount = 0
    THEN [q |-> q, taken |-> taken]
    ELSE HeadConsumption(
             IF q[1][2] - Min(amount, q[1][2]) = 0
             THEN Tail(q)
             ELSE <<<<Min(q[1][1], q[1][2] - Min(amount, q[1][2])),
                      q[1][2] - Min(amount, q[1][2])>>>> \o Tail(q),
             amount - Min(amount, q[1][2]),
             taken + (q[1][1] - Min(q[1][1], q[1][2] - Min(amount, q[1][2]))))

HeadConsumed(r, expected) ==
    /\ r.ret = expected.taken
    /\ Taint(expected.q) > 0 => r.after = expected.q
    /\ r.ret + Taint(r.after) = Taint(r.queue)

\* C6: remove_from_blacklist consumes from the head as HeadConsumption does,
\* returns the sum of the taint taken from the pairs, and the returned taint
\* plus the taint left in the queue is the taint before the call.
C6_HeadConsumptionConservesTaint ==
    \A i \in DOMAIN Removals :
        HeadConsumed(Removals[i],
                     HeadConsumption(Removals[i].queue, Removals[i].amount, 0))

\* a removal that consumes the first pair and goes on into the second
C6_Witness ==
    \E i \in DOMAIN Removals :
        /\ Len(Removals[i].queue) > 1
        /\ Removals[i].queue[1][2] > 0
        /\ Removals[i].amount > Removals[i].queue[1][2]
        /\ Removals[i].queue[2][2] > 0
        /\ Removals[i].ret > 0
        /\ Taint(Removals[i].after) > 0

StoredQueues ==
    {blacklist[a][c] : <<a, c>> \in
        {k \in Addresses \X Currencies :
            k[1] \in DOMAIN blacklist /\ k[2] \in DOMAIN blacklist[k[1]]}}

\* C7 as stated: in every reachable FIFO blacklist every stored pair
\* [tainted_portion, total_inflow] has 0 <= tainted_portion <= total_inflow
\* and total_inflow > 0.
C7_PairInvariant ==
    policy = "FIFO" =>
        \A q \in StoredQueues : \A i \in DOMAIN q :
            /\ 0 <= q[i][1]
            /\ q[i][1] <= q[i][2]
            /\ q[i][2] > 0

-----------------------------------------------------------------------------
(* SeniorityPolicy                                                           *)

TotalTaint(bl, currency) ==
    SumSeq([i \in 1..Len(SeedList) |->
               <<Dict_get_account_blacklist_value(bl, SeedList[i], currency)>>], 1)
        + Dict_get_account_blacklist_value(bl, NULL_ADDRESS, currency)

\* the last operation was a transfer event whose sender was tainted when
\* _transfer_taint(from, to, amount, c) was called
SeniorityTransfer ==
    /\ policy = "Seniority"
    /\ last.op = "event"
    /\ IsTransfer(last.event)
    /\ Dict_is_blacklisted(last.at, last.event.args.from, TransferCurrency(last.event))
    /\ ~is_permanently_tainted(last.event.args.from)

Moved ==
    Min(last.event.args.value,
        Dict_get_account_blacklist_value(last.at, last.event.args.from,
                                         TransferCurrency(last.event)))

Burns == last.event.args.to \in {NULL_ADDRESS, None}

TaintChange(account) ==
    Dict_get_account_blacklist_value(blacklist, account, TransferCurrency(last.event))
        - Dict_get_account_blacklist_value(last.at, account, TransferCurrency(last.event))

\* C8: a tainted sender's _transfer_taint moves exactly min(amount, B(from,c)):
\* the sender loses it, an ordinary receiver gains it and the total of B(a,c)
\* is unchanged, while a transfer to NULL_ADDRESS or None lowers the total by
\* exactly that amount; the total never increases.
C8_SeniorityConservation ==
    SeniorityTransfer =>
        /\ \A a \in Addresses :
               TaintChange(a) =
                   (IF a = last.event.args.to /\ ~Burns THEN Moved ELSE 0)
                       - (IF a = last.event.args.from THEN Moved ELSE 0)
        /\ TotalTaint(blacklist, TransferCurrency(last.event)) =
               TotalTaint(last.at, TransferCurrency(last.event))
                   - (IF Burns THEN Moved ELSE 0)
        /\ TotalTaint(blacklist, TransferCurrency(last.event))
               <= TotalTaint(last.at, TransferCurrency(last.event))
        /\ last.ret = IF Burns THEN 0 ELSE Moved

\* a sender with less taint than it sends burns part of it to the null address
C8_Witness ==
    /\ SeniorityTransfer
    /\ Burns
    /\ Moved > 0
    /\ Moved < last.event.args.value
    /\ TotalTaint(blacklist, TransferCurrency(last.event)) > 0
    /\ TotalTaint(blacklist, TransferCurrency(last.event)) =
           TotalTaint(last.at, TransferCurrency(last.event)) - Moved

\* the last operation was the gas fee of a tainted sender
SeniorityFee ==
    /\ policy = "Seniority"
    /\ last.op = "gas"
    /\ Dict_is_blacklisted(last.before, last.sender, ETH)
    /\ ~is_permanently_tainted(last.sender)

FeeB == Dict_get_account_blacklist_value(last.before, last.sender, ETH)

-----------------------------------------------------------------------------
(* Reversed Seniority: the amount an event's _transfer_taint moves           *)

\* the arguments of the _transfer_taint call of the last event
TaintCall == TransferTaintCall(last.event)

\* the last step was an event whose _transfer_taint call had a blacklisted,
\* not permanently tainted sender with value B (temp balance X is last.x)
ReversedTransfer ==
    /\ policy = "Reversed Seniority"
    /\ last.op = "event"
    /\ error = ""
    /\ CallsTransferTaint(last.event)
    /\ TaintCall.from \notin permanent
    /\ Dict_is_blacklisted(last.at, TaintCall.from, TaintCall.currency)

ReversedB == Dict_get_account_blacklist_value(last.at, TaintCall.from, TaintCall.currency)

ReversedTransferred == Max(0, ReversedB - (last.x - TaintCall.amount))

\* C12: Reversed Seniority moves max(0, B - (X - amount_sent)); when this is 0
\* no blacklist entry changes, otherwise exactly that amount leaves the sender's
\* value in currency_in and is added to the receiver's value in currency_out,
\* unless the receiver is the null address
C12_ReversedSeniorityTransfer ==
    ReversedTransfer =>
        /\ last.ret = ReversedTransferred
        /\ ReversedTransferred = 0 => blacklist = last.at
        /\ \A a \in Addresses, c \in Currencies :
              Dict_get_account_blacklist_value(blacklist, a, c)
                  = Dict_get_account_blacklist_value(last.at, a, c)
                    - (IF a = TaintCall.from /\ c = TaintCall.currency
                       THEN ReversedTransferred ELSE 0)
                    + (IF a = TaintCall.to /\ a # NULL_ADDRESS /\ c = TaintCall.currency_2
                       THEN ReversedTransferred ELSE 0)

\* a transfer to another account that leaves the sender untainted funds: only
\* part of the sender's taint moves, less than the amount sent
C12_Witness ==
    /\ ReversedTransfer
    /\ TaintCall.to \in Accounts \ {TaintCall.from}
    /\ last.x > TaintCall.amount
    /\ ReversedTransferred > 0
    /\ ReversedTransferred < TaintCall.amount
    /\ Dict_get_account_blacklist_value(blacklist, TaintCall.to, TaintCall.currency_2)
           = Dict_get_account_blacklist_value(last.at, TaintCall.to, TaintCall.currency_2)
             + ReversedTransferred

-----------------------------------------------------------------------------
(* FIFO: the tracked part of a transfer and the pair the receiver gains      *)

\* the last step was an event whose _transfer_taint call had a blacklisted,
\* not permanently tainted sender
FIFOTransfer ==
    /\ policy = "FIFO"
    /\ last.op = "event"
    /\ error = ""
    /\ CallsTransferTaint(last.event)
    /\ TaintCall.from \notin permanent
    /\ Dict_is_blacklisted(last.at, TaintCall.from, TaintCall.currency)

\* untracked = temp balance - tracked value; the tracked part of the amount sent
FIFOUntracked ==
    last.x - FIFO_get_tracked_value(last.at, TaintCall.from, TaintCall.currency)

FIFOTracked == TaintCall.amount - FIFOUntracked

\* the receiver's queue before the credit: what the removal left when the
\* receiver's queue is the sender's own, else the queue at the call
QueueBeforeCredit ==
    IF TaintCall.to = TaintCall.from /\ TaintCall.currency_2 = TaintCall.currency
       /\ last.rm # << >>
    THEN last.rm[1].after
    ELSE QueueOf(last.at, TaintCall.to, TaintCall.currency_2)

\* the checks of a call whose tracked part is > 0, and of the receiver's pair
FIFOTrackedPartRemoved ==
    FIFOTracked > 0 =>
        /\ Len(last.rm) = 1
        /\ last.rm[1].account = TaintCall.from
        /\ last.rm[1].currency = TaintCall.currency
        /\ last.rm[1].amount = FIFOTracked
        /\ last.rm[1].queue = QueueOf(last.at, TaintCall.from, TaintCall.currency)
        /\ last.ret = last.rm[1].ret

FIFOReceiverGainsPair ==
    (last.ret > 0 /\ TaintCall.to \in Accounts) =>
        QueueOf(blacklist, TaintCall.to, TaintCall.currency_2)
            = Append(QueueBeforeCredit, <<last.ret, TaintCall.amount>>)

FIFOSelfTransfer ==
    TaintCall.to = TaintCall.from /\ TaintCall.currency_2 = TaintCall.currency

\* a queue after the untainted inflow [0, total] is added to it
WithUntaintedInflow(q, total) ==
    IF Taint(q) = 0
    THEN << >>
    ELSE IF q[Len(q)][1] = 0
         THEN [q EXCEPT ![Len(q)] = <<0, q[Len(q)][2] + total>>]
         ELSE Append(q, <<0, total>>)

\* C13 as stated: with a tracked part <= 0 nothing is removed, the sender's
\* queue is unchanged and 0 is returned; otherwise remove(from, tracked part,
\* currency_in) is called once and its return value is returned; whenever that
\* is > 0 and the receiver is an ordinary account, the receiver's queue for
\* currency_out gains exactly the pair [transferred, amount_sent]
C13_FIFOTransferSenderQueueUnchanged ==
    FIFOTransfer =>
        /\ FIFOTracked <= 0 =>
              /\ last.ret = 0
              /\ last.rm = << >>
              /\ QueueOf(blacklist, TaintCall.from, TaintCall.currency)
                     = QueueOf(last.at, TaintCall.from, TaintCall.currency)
        /\ FIFOTrackedPartRemoved
        /\ FIFOReceiverGainsPair

\* C13 amended: as stated, except that with a tracked part <= 0 the sender's
\* queue is unchanged only when the sender is not its own receiver in the same
\* currency; when it is, the queue takes the untainted inflow [0, amount_sent]
C13_FIFOTransferExceptSelfTransfer ==
    FIFOTransfer =>
        /\ FIFOTracked <= 0 =>
              /\ last.ret = 0
              /\ last.rm = << >>
              /\ QueueOf(blacklist, TaintCall.from, TaintCall.currency)
                     = IF FIFOSelfTransfer
                       THEN WithUntaintedInflow(
                                QueueOf(last.at, TaintCall.from, TaintCall.currency),
                                TaintCall.amount)
                       ELSE QueueOf(last.at, TaintCall.from, TaintCall.currency)
        /\ FIFOTrackedPartRemoved
        /\ FIFOReceiverGainsPair

\* a tainted sender transfers to itself an amount its untracked balance
\* covers: nothing is removed and its queue takes the pair [0, amount_sent]
C13_Witness ==
    /\ FIFOTransfer
    /\ FIFOSelfTransfer
    /\ TaintCall.amount > 0
    /\ FIFOTracked <= 0
    /\ last.ret = 0
    /\ QueueOf(blacklist, TaintCall.from, TaintCall.currency)
           = Append(QueueOf(last.at, TaintCall.from, TaintCall.currency),
                    <<0, TaintCall.amount>>)

-----------------------------------------------------------------------------
(* Poison: the result of an event's _transfer_taint                          *)

\* the last step was an event that called _transfer_taint under Poison
PoisonTransfer ==
    /\ policy = "Poison"
    /\ last.op = "event"
    /\ error = ""
    /\ CallsTransferTaint(last.event)

\* C14: _transfer_taint marks `to` as tainted and returns 1 exactly when `from`
\* is tainted and `to` is not the null address; in every other case it returns
\* 0 and leaves the tainted set unchanged
C14_PoisonTransfer ==
    PoisonTransfer =>
        IF TaintCall.from \in last.at /\ TaintCall.to # NULL_ADDRESS
        THEN last.ret = 1 /\ blacklist = last.at \cup {TaintCall.to}
        ELSE last.ret = 0 /\ blacklist = last.at

-----------------------------------------------------------------------------
(* Permanent taint                                                           *)

\* the last step was an event whose _transfer_taint call had a permanently
\* tainted sender and an ordinary account as receiver
PermanentTransfer ==
    /\ policy \in {"Seniority", "Reversed Seniority", "FIFO"}
    /\ last.op = "event"
    /\ error = ""
    /\ CallsTransferTaint(last.event)
    /\ TaintCall.from \in permanent
    /\ TaintCall.to \in Accounts

ValueIn(bl, a, c) == get_blacklist_value([bl |-> bl], a, c)

\* C15: a transfer of amount_sent by a permanently tainted sender credits
\* exactly amount_sent of taint to the receiver in currency_out and debits
\* nothing, whatever the sender's temp balance and blacklist value, also when
\* the sender has no blacklist entry for the currency
C15_PermanentTaint ==
    PermanentTransfer =>
        /\ last.ret = TaintCall.amount
        /\ \A a \in Addresses, c \in Currencies :
              ValueIn(blacklist, a, c)
                  = ValueIn(last.at, a, c)
                    + (IF a = TaintCall.to /\ c = TaintCall.currency_2
                       THEN TaintCall.amount ELSE 0)

-----------------------------------------------------------------------------
(* Seniority: WETH deposits and withdrawals                                  *)

\* the last step was a Deposit or Withdrawal event of the WETH contract
SeniorityConversion ==
    /\ policy = "Seniority"
    /\ last.op = "event"
    /\ error = ""
    /\ last.event.event \in {"Deposit", "Withdrawal"}
    /\ CallsTransferTaint(last.event)
    /\ TaintCall.from \notin permanent

\* min(wad, B(a, currency_in))
Converted ==
    Min(TaintCall.amount,
        Dict_get_account_blacklist_value(last.before, TaintCall.from, TaintCall.currency))

\* C16: a WETH Deposit of wad w for account a removes min(w, B(a,ETH)) from a's
\* ETH taint and adds it to a's WETH taint, a Withdrawal does the same from
\* WETH to ETH; B(a,ETH) + B(a,WETH) is unchanged and no other account's entry
\* changes
C16_SeniorityWethConversion ==
    SeniorityConversion =>
        /\ last.ret = Converted
        /\ Dict_get_account_blacklist_value(blacklist, TaintCall.from, TaintCall.currency)
               = Dict_get_account_blacklist_value(last.before, TaintCall.from,
                                                  TaintCall.currency) - Converted
        /\ Dict_get_account_blacklist_value(blacklist, TaintCall.from, TaintCall.currency_2)
               = Dict_get_account_blacklist_value(last.before, TaintCall.from,
                                                  TaintCall.currency_2) + Converted
        /\ Dict_get_account_blacklist_value(blacklist, TaintCall.from, ETH)
             + Dict_get_account_blacklist_value(blacklist, TaintCall.from, WETH)
               = Dict_get_account_blacklist_value(last.before, TaintCall.from, ETH)
                   + Dict_get_account_blacklist_value(last.before, TaintCall.from, WETH)
        /\ Dict_get_account_blacklist_value(blacklist, TaintCall.from, TOKEN)
               = Dict_get_account_blacklist_value(last.before, TaintCall.from, TOKEN)
        /\ \A a \in Addresses \ {TaintCall.from} :
               /\ a \in DOMAIN blacklist <=> a \in DOMAIN last.before
               /\ a \in DOMAIN blacklist => blacklist[a] = last.before[a]

\* a deposit larger than the account's ETH taint: all of the ETH taint, less
\* than the wad, becomes WETH taint
C16_Witness ==
    /\ SeniorityConversion
    /\ last.event.event = "Deposit"
    /\ Converted > 0
    /\ Converted < TaintCall.amount
    /\ ~Dict_is_blacklisted(blacklist, TaintCall.from, ETH)
    /\ Dict_get_account_blacklist_value(blacklist, TaintCall.from, WETH)
           = Dict_get_account_blacklist_value(last.before, TaintCall.from, WETH) + Converted

-----------------------------------------------------------------------------
(* BlacklistPolicy._process_transaction and _process_block                   *)
(* tx = [from, to, value, status, logs, internal, gasPrice, gasUsed], logs   *)
(* being the receipt's Transfer, Deposit and Withdrawal events and internal  *)
(* the events made from the transaction's traces;                            *)
(* block = [transactions, miner, baseFeePerGas]                              *)

FeeOf(tx, block) ==
    [gasPrice |-> tx.gasPrice, baseFeePerGas |-> block.baseFeePerGas,
     gasUsed |-> tx.gasUsed, miner |-> block.miner]

\* What the handler does with the policy, in program order: a call is
\* [site, event], the site being the statement of _process_transaction that
\* made it: "single" (line 363), "first" (380), "drain" (387, 392), "drop"
\* (the pop of 388, 393, which processes nothing), "log" (395), "remaining"
\* (402) and, without an event, "gas_fees" (357, 366, 404).
\* A run of the handler is r = [s, internal, calls].
Transaction_start(s, tx) == [s |-> s, internal |-> tx.internal, calls |-> << >>]

\* self._process_event(event) at a site
Transaction_process(r, cb, site, event) ==
    [r EXCEPT !.s = process_event(r.s, cb, event).s,
              !.calls = Append(@, [site |-> site, event |-> event])]

\* _process_gas_fees ahead of the events of the path: the fees of a
\* transaction whose handler has passed nothing to the policy yet, and no fees
\* at the end
Transaction_gas_fees_early(r, cb, tx, block) ==
    IF r.s.err # "" \/ r.calls # << >>
    THEN r
    ELSE [r EXCEPT !.s = process_gas_fees(r.s, cb, FeeOf(tx, block), tx.from).s,
                   !.calls = Append(@, [site |-> "gas_fees"])]

\* _process_gas_fees at the end of a path, unless an exception was raised
Transaction_gas_fees(r, cb, tx, block) ==
    IF r.s.err # ""
    THEN r
    ELSE [r EXCEPT !.s = process_gas_fees(r.s, cb, FeeOf(tx, block), tx.from).s,
                   !.calls = Append(@, [site |-> "gas_fees"])]

\* the path of a transaction without logs and with at most one trace
Transaction_single(r, cb) ==
    IF r.internal # << >>
    THEN Transaction_process(r, cb, "single", r.internal[1])
    ELSE r

\* the first internal transaction, taken for the WETH contract as well
Transaction_first_internal_to_weth(r, cb, tx) ==
    IF tx.value # 0
    THEN IF r.internal = << >>
         THEN [r EXCEPT !.s.err = "exit"]
         ELSE Transaction_process([r EXCEPT !.internal = Tail(@)], cb, "first",
                                  r.internal[1])
    ELSE r

\* the first internal transaction of a transaction that transfers ETH
Transaction_first_internal(r, cb, tx) ==
    IF tx.value # 0 /\ ~is_weth(tx.to)
    THEN IF r.internal = << >>
         THEN [r EXCEPT !.s.err = "exit"]
         ELSE Transaction_process([r EXCEPT !.internal = Tail(@)], cb, "first",
                                  r.internal[1])
    ELSE r

\* the while loop without the pop that follows it
RECURSIVE Transaction_pop_until_kept(_, _, _)
Transaction_pop_until_kept(r, cb, kind) ==
    IF r.s.err # ""
    THEN r
    ELSE IF r.internal = << >>
         THEN [r EXCEPT !.s.err = "IndexError"]
         ELSE IF r.internal[1].event = kind
              THEN r
              ELSE Transaction_pop_until_kept(
                       Transaction_process([r EXCEPT !.internal = Tail(@)], cb,
                                           "drain", r.internal[1]),
                       cb, kind)

\* the pop loop guarded by a test of the list: an empty list ends it
RECURSIVE Transaction_pop_until_lenient(_, _, _)
Transaction_pop_until_lenient(r, cb, kind) ==
    IF r.s.err # "" \/ r.internal = << >>
    THEN r
    ELSE IF r.internal[1].event = kind
         THEN [r EXCEPT !.internal = Tail(@),
                        !.calls = Append(@, [site |-> "drop",
                                             event |-> r.internal[1]])]
         ELSE Transaction_pop_until_lenient(
                  Transaction_process([r EXCEPT !.internal = Tail(@)], cb,
                                      "drain", r.internal[1]),
                  cb, kind)

\* while internal_transactions[0]["event"] != kind: process and pop; then pop
RECURSIVE Transaction_pop_until(_, _, _)
Transaction_pop_until(r, cb, kind) ==
    IF r.s.err # ""
    THEN r
    ELSE IF r.internal = << >>
         THEN [r EXCEPT !.s.err = "IndexError"]
         ELSE IF r.internal[1].event = kind
              THEN [r EXCEPT !.internal = Tail(@),
                             !.calls = Append(@, [site |-> "drop",
                                                  event |-> r.internal[1]])]
              ELSE Transaction_pop_until(
                       Transaction_process([r EXCEPT !.internal = Tail(@)], cb,
                                           "drain", r.internal[1]),
                       cb, kind)

\* a variant that takes a trace off the list for the Deposit and Withdrawal
\* events of every contract
Transaction_match_any_address(r, cb, event) ==
    IF event.event \in {"Deposit", "Withdrawal"} /\ event.args.wad > 0
    THEN Transaction_pop_until(r, cb, event.event)
    ELSE r

\* a WETH Deposit or Withdrawal event takes its trace off the list
Transaction_match(r, cb, event) ==
    IF event.event \in {"Deposit", "Withdrawal"} /\ is_weth(event.address)
       /\ event.args.wad > 0
    THEN Transaction_pop_until(r, cb, event.event)
    ELSE r

Transaction_event(m, cb, event) ==
    IF m.s.err # ""
    THEN m
    ELSE Transaction_process(m, cb, "log", event)

\* for event in events
RECURSIVE Transaction_events(_, _, _)
Transaction_events(r, cb, events) ==
    IF events = << >> \/ r.s.err # ""
    THEN r
    ELSE Transaction_events(
             Transaction_event(Transaction_match(r, cb, events[1]), cb, events[1]),
             cb, Tail(events))

\* the loop over the remaining entries, passing over Deposit and Withdrawal
RECURSIVE Transaction_remaining_skipping(_, _, _)
Transaction_remaining_skipping(r, cb, n) ==
    IF n > Len(r.internal) \/ r.s.err # ""
    THEN r
    ELSE IF r.internal[n].event \in {"Deposit", "Withdrawal"}
         THEN Transaction_remaining_skipping(r, cb, n + 1)
         ELSE Transaction_remaining_skipping(
                  Transaction_process(r, cb, "remaining", r.internal[n]), cb, n + 1)

\* the remaining internal transactions; the for loop leaves the list as it is
RECURSIVE Transaction_remaining(_, _, _)
Transaction_remaining(r, cb, n) ==
    IF n > Len(r.internal) \/ r.s.err # ""
    THEN r
    ELSE IF r.internal[n].event \in {"Deposit", "Withdrawal"}
         THEN [r EXCEPT !.s.err = "exit"]
         ELSE Transaction_remaining(
                  Transaction_process(r, cb, "remaining", r.internal[n]), cb, n + 1)

Transaction_drain(r, cb) == Transaction_remaining(r, cb, 1)

\* the event types _process_transaction asks for
TransferEventTypes == <<"Transfer", "Deposit", "Withdrawal">>

\* the logs of a receipt with one of the topics; a log's place in the receipt
\* is its logIndex
Receipt_decodable(logs, event_types) ==
    {i \in DOMAIN logs : \E n \in DOMAIN event_types : logs[i].event = event_types[n]}

\* the decoded logs in the order processReceipt returns them, event type by
\* event type, without the final sort by logIndex
RECURSIVE get_all_events_by_type(_, _)
get_all_events_by_type(logs, event_types) ==
    IF event_types = << >>
    THEN << >>
    ELSE SelectSeq(logs, LAMBDA l : l.event = Head(event_types))
             \o get_all_events_by_type(logs, Tail(event_types))

\* get_all_events_of_type_in_tx: log_dict holds one decoded log per logIndex
\* and the result lists them by ascending key
get_all_events_of_type_in_tx(logs, event_types) ==
    LET keys == Receipt_decodable(logs, event_types)
        key(k) == CHOOSE i \in keys : Cardinality({j \in keys : j < i}) = k - 1
    IN  [k \in 1..Cardinality(keys) |-> logs[key(k)]]

\* the handler without its test of the receipt status
Transaction_run_status_ignored(s, cb, tx, block) ==
    IF tx.logs = << >> /\ Len(tx.internal) < 2
    THEN Transaction_gas_fees(
             Transaction_single(Transaction_start(s, tx), cb), cb, tx, block)
    ELSE Transaction_gas_fees(
             Transaction_drain(
                 Transaction_events(
                     Transaction_first_internal(Transaction_start(s, tx), cb, tx),
                     cb, tx.logs),
                 cb),
             cb, tx, block)

\* _process_transaction: the run of the handler from the policy state s
Transaction_run(s, cb, tx, block) ==
    IF tx.status = 0
    THEN Transaction_gas_fees(Transaction_start(s, tx), cb, tx, block)
    ELSE IF tx.logs = << >> /\ Len(tx.internal) < 2
         THEN Transaction_gas_fees(
                  Transaction_single(Transaction_start(s, tx), cb), cb, tx, block)
         ELSE Transaction_gas_fees(
                  Transaction_drain(
                      Transaction_events(
                          Transaction_first_internal(Transaction_start(s, tx), cb, tx),
                          cb, get_all_events_of_type_in_tx(tx.logs, TransferEventTypes)),
                      cb),
                  cb, tx, block)

process_transaction(s, cb, tx, block) == Transaction_run(s, cb, tx, block).s

\* for transaction, transaction_log in zip(transactions, receipts)
RECURSIVE Block_transactions(_, _, _, _)
Block_transactions(s, cb, block, n) ==
    IF n > Len(block.transactions) \/ s.err # ""
    THEN s
    ELSE Block_transactions(process_transaction(s, cb, block.transactions[n], block),
                            cb, block, n + 1)

\* _process_block once the block was retrieved: the ledger starts empty
process_block(s, cb, block) ==
    Block_transactions([s EXCEPT !.tb = EmptyDict], cb, block, 1)

-----------------------------------------------------------------------------
(* The checkpoint file: json.dump of {"block", "blacklist", "tainted         *)
(* transactions"} and json.load of it.  A JSON value is [type, value] with   *)
(* type "number", "string", "array" or "object".                             *)

json_number(n) == [type |-> "number", value |-> n]
json_string(x) == [type |-> "string", value |-> x]
json_array(a) == [type |-> "array", value |-> a]
json_object(d) == [type |-> "object", value |-> d]

\* json.dump of a DictBlacklist account entry: ints, and the "all" list
json_dump_entry(entry) ==
    json_object([c \in DOMAIN entry |->
        IF c = ALL
        THEN json_array([i \in DOMAIN entry[c] |-> json_string(entry[c][i])])
        ELSE json_number(entry[c])])

json_dump_blacklist(bl) ==
    json_object([a \in DOMAIN bl |-> json_dump_entry(bl[a])])

json_dump_counters(tt) ==
    json_object([a \in DOMAIN tt |->
        json_object([f \in DOMAIN tt[a] |-> json_number(tt[a][f])])])

RECURSIVE json_load(_)
json_load(j) ==
    IF j.type \in {"number", "string"}
    THEN j.value
    ELSE [k \in DOMAIN j.value |-> json_load(j.value[k])]

\* _save_checkpoint: the text written to the checkpoint file
save_checkpoint(block, bl, tt) ==
    json_object([k \in {"block", "blacklist", "tainted transactions"} |->
        CASE k = "block"     -> json_number(block)
          [] k = "blacklist" -> json_dump_blacklist(bl)
          [] OTHER           -> json_dump_counters(tt)])

\* load_from_checkpoint: [block, blacklist, tt]
load_from_checkpoint(file) ==
    IF file.type = "missing"
    THEN [block |-> 0, blacklist |-> EmptyDict, tt |-> EmptyDict]
    ELSE [block     |-> json_load(file).block,
          blacklist |-> json_load(file).blacklist,
          tt        |-> json_load(file)["tainted transactions"]]

-----------------------------------------------------------------------------
(* propagate_blacklist.  chain = [start_block, block_amount, blocks] is the  *)
(* job and the chain data it reads; a process runs the job, may be stopped   *)
(* between two blocks, and a new process may take the job up again.          *)

OtherAccount(a) == IF a = "0xAAA" THEN "0xBBB" ELSE "0xAAA"

\* a plain ETH transfer, with the one trace that carries its value
TransferTransaction(a) ==
    [from |-> a, to |-> OtherAccount(a), value |-> 1, status |-> 1, logs |-> << >>,
     internal |-> <<[event |-> "Internal Transaction", address |-> ETH,
                     args |-> [from |-> a, to |-> OtherAccount(a), value |-> 1]]>>,
     gasPrice |-> 1, gasUsed |-> GasUsed]

FailedTransaction(a) ==
    [from |-> a, to |-> TOKEN, value |-> 0, status |-> 0, logs |-> << >>,
     internal |-> << >>, gasPrice |-> 1, gasUsed |-> GasUsed]

TokenTransaction(a) ==
    [from |-> a, to |-> TOKEN, value |-> 0, status |-> 1,
     logs |-> <<[event |-> "Transfer", address |-> TOKEN,
                 args |-> [from |-> a, to |-> OtherAccount(a), value |-> 1]]>>,
     internal |-> << >>, gasPrice |-> 1, gasUsed |-> GasUsed]

DepositTransaction(a) ==
    [from |-> a, to |-> WETH, value |-> 1, status |-> 1,
     logs |-> <<[event |-> "Deposit", address |-> WETH,
                 args |-> [dst |-> a, wad |-> 1]]>>,
     internal |-> <<[event |-> "Deposit", address |-> ETH,
                     args |-> [from |-> a, to |-> WETH, value |-> 1]]>>,
     gasPrice |-> 1, gasUsed |-> GasUsed]

ChainTransactions ==
    UNION {{TransferTransaction(a), FailedTransaction(a), TokenTransaction(a),
            DepositTransaction(a)} : a \in Accounts}

Blocks ==
    [transactions : {<<tx>> : tx \in ChainTransactions} \cup {<< >>},
     miner : {"0xBBB"},
     baseFeePerGas : {0, 1}]

StartBlocks == {0, 1}

Chains ==
    UNION {[start_block : StartBlocks, block_amount : {n}, blocks : [1..n -> Blocks]] :
              n \in 1..MaxBlocks}

\* the balances the node answers, the same at every block of the job
ChainBalances == [k \in BalanceKeys |-> IF k[1] = "0xAAA" THEN MaxBalance ELSE 0]

\* a policy object after construction, once main has added the seed account
Constructed ==
    add_account_to_blacklist(
        [bl |-> EmptyDict, tb |-> EmptyDict, tt |-> EmptyDict, err |-> ""],
        ChainBalances, "0xAAA")

Interval(block_amount) ==
    IF block_amount < 20 THEN 1
    ELSE IF block_amount < 200 THEN 10
    ELSE IF block_amount < 2000 THEN 100
    ELSE 500

EndBlock == chain.start_block + chain.block_amount - 1

BlockAt(i) == chain.blocks[i - chain.start_block + 1]

\* the condition under which the loop writes a checkpoint after block i
SavesCheckpoint(i) ==
    /\ (i - chain.start_block) % Interval(chain.block_amount) = 0
    /\ i - loop_start_block > 0
    /\ i < chain.start_block + chain.block_amount

InitProp ==
    /\ policy = "Seniority"
    /\ chain \in Chains
    /\ blacklist = Constructed.bl
    /\ temp_balances = EmptyDict
    /\ tainted_transactions = EmptyDict
    /\ permanent = {}
    /\ chain_balance = EmptyDict
    /\ error = ""
    /\ last = [op |-> "init"]
    /\ steps = 0
    /\ pc = "idle"
    /\ current_block = -1
    /\ loop_start_block = 0
    /\ next_block = 0
    /\ checkpoint = NoFile
    /\ processed = << >>
    /\ resumed = FALSE
    /\ current_tx = ""
    /\ reverted_traces = << >>

\* propagate_blacklist up to its loop; saved is what load_from_checkpoint returns
PropagateFrom(load_checkpoint, saved) ==
    /\ current_block' = chain.start_block
    /\ IF load_checkpoint /\ EndBlock = saved.block
       THEN /\ pc' = "done"
            /\ loop_start_block' = chain.start_block
            /\ next_block' = chain.start_block
            /\ UNCHANGED <<blacklist, tainted_transactions, resumed, processed>>
       ELSE IF load_checkpoint /\ chain.start_block < saved.block
                                /\ saved.block < EndBlock
            THEN /\ pc' = "loop"
                 /\ loop_start_block' = saved.block
                 /\ next_block' = saved.block
                 /\ blacklist' = saved.blacklist
                 /\ tainted_transactions' = saved.tt
                 /\ resumed' = TRUE
                 /\ UNCHANGED processed
            ELSE /\ pc' = "loop"
                 /\ loop_start_block' = chain.start_block
                 /\ next_block' = chain.start_block
                 /\ processed' = << >>
                 /\ UNCHANGED <<blacklist, tainted_transactions, resumed>>
    /\ last' = [op |-> "propagate", load_checkpoint |-> load_checkpoint]
    /\ UNCHANGED <<policy, temp_balances, permanent, chain_balance, error, steps,
                   chain, checkpoint, current_tx, reverted_traces>>

Propagate ==
    /\ pc = "idle"
    /\ \E load_checkpoint \in BOOLEAN :
           PropagateFrom(load_checkpoint, load_from_checkpoint(checkpoint))

\* the loop with a handler around _process_block that writes the checkpoint of
\* the interval before the exception leaves
BlockDone_saving_partial(i, s) ==
    /\ Install(s)
    /\ current_block' = i
    /\ processed' = Append(processed, i)
    /\ pc' = IF s.err # "" THEN "failed" ELSE "loop"
    /\ next_block' = IF s.err # "" THEN next_block ELSE i + 1
    /\ checkpoint' = IF SavesCheckpoint(i)
                     THEN save_checkpoint(i, s.bl, s.tt)
                     ELSE checkpoint
    /\ last' = [op |-> "block", block |-> i, saved |-> SavesCheckpoint(i)]
    /\ UNCHANGED <<policy, permanent, chain_balance, steps, chain,
                   loop_start_block, resumed, current_tx, reverted_traces>>

\* one turn of the loop: _process_block(i), s being the state it leaves, and
\* the checkpoint of the interval
BlockDone(i, s) ==
    /\ Install(s)
    /\ current_block' = i
    /\ processed' = Append(processed, i)
    /\ IF s.err # ""
       THEN /\ pc' = "failed"
            /\ UNCHANGED <<checkpoint, next_block>>
       ELSE /\ pc' = "loop"
            /\ next_block' = i + 1
            /\ checkpoint' = IF SavesCheckpoint(i)
                             THEN save_checkpoint(i, s.bl, s.tt)
                             ELSE checkpoint
    /\ last' = [op |-> "block", block |-> i, saved |-> s.err = "" /\ SavesCheckpoint(i)]
    /\ UNCHANGED <<policy, permanent, chain_balance, steps, chain,
                   loop_start_block, resumed, current_tx, reverted_traces>>

ProcessBlock ==
    /\ pc = "loop"
    /\ next_block <= EndBlock
    /\ BlockDone(next_block, process_block(State, ChainBalances, BlockAt(next_block)))

\* after the loop: the final checkpoint
Finish ==
    /\ pc = "loop"
    /\ next_block > EndBlock
    /\ checkpoint' = save_checkpoint(current_block, blacklist, tainted_transactions)
    /\ pc' = "done"
    /\ last' = [op |-> "finish"]
    /\ UNCHANGED <<policy, blacklist, temp_balances, tainted_transactions, permanent,
                   chain_balance, error, steps, chain, current_block,
                   loop_start_block, next_block, processed, resumed, current_tx,
                   reverted_traces>>

\* the process is stopped between two blocks; the checkpoint file stays
Stop ==
    /\ pc = "loop"
    /\ steps < MaxStops
    /\ pc' = "stopped"
    /\ steps' = steps + 1
    /\ last' = [op |-> "stop"]
    /\ UNCHANGED <<policy, blacklist, temp_balances, tainted_transactions, permanent,
                   chain_balance, error, chain, current_block, loop_start_block,
                   next_block, checkpoint, processed, resumed, current_tx,
                   reverted_traces>>

\* a new process constructs the policy and seeds it again
Restart ==
    /\ pc = "stopped"
    /\ blacklist' = Constructed.bl
    /\ temp_balances' = EmptyDict
    /\ tainted_transactions' = EmptyDict
    /\ error' = ""
    /\ current_block' = -1
    /\ pc' = "idle"
    /\ last' = [op |-> "restart"]
    /\ UNCHANGED <<policy, permanent, chain_balance, steps, chain, loop_start_block,
                   next_block, checkpoint, processed, resumed, current_tx,
                   reverted_traces>>

NextProp == Propagate \/ ProcessBlock \/ Finish \/ Stop \/ Restart

SpecProp == InitProp /\ [][NextProp]_vars

\* the state an uninterrupted run over blocks i..EndBlock reaches from s
RECURSIVE RunBlocks(_, _)
RunBlocks(s, i) ==
    IF i > EndBlock \/ s.err # ""
    THEN s
    ELSE RunBlocks(process_block(s, ChainBalances, BlockAt(i)), i + 1)

StraightRun == RunBlocks(Constructed, chain.start_block)

\* a run was stopped after the interval checkpoint of a block B', and the run
\* that accepted this checkpoint has reached the last block
ResumedRunDone == pc = "done" /\ resumed

\* C1 as stated: the resumed run ends with the blacklist snapshot and the
\* tainted-transaction counters of the uninterrupted run over the same blocks.
C1_ResumedRunEqualsStraightRun ==
    ResumedRunDone =>
        /\ blacklist = StraightRun.bl
        /\ tainted_transactions = StraightRun.tt
        /\ checkpoint = save_checkpoint(EndBlock, StraightRun.bl, StraightRun.tt)

\* C2 as stated: blocks are passed to _process_block in strictly increasing
\* order, none twice, and a finished job, resumed or not, has passed every
\* block of [start_block, start_block + block_count - 1] exactly once.
C2_EveryBlockProcessedOnce ==
    /\ \A i \in DOMAIN processed : \A j \in DOMAIN processed :
           i < j => processed[i] < processed[j]
    /\ pc = "done" =>
           processed = [i \in 1..chain.block_amount |-> chain.start_block + i - 1]

-----------------------------------------------------------------------------
(* The event sequencer: _process_transaction on its own.  A policy object    *)
(* seeded with 0xAAA handles one transaction of a block, taken from          *)
(* receipts with and without logs and trace lists of up to MaxTraces         *)
(* entries, and the next block clears the ledger.                            *)

MaxLogs == 2            \* Transfer, Deposit and Withdrawal logs of a receipt
MaxTraces == 3          \* internal-transaction events of a transaction
MaxSequencerBlocks == 1 \* blocks, of one transaction each, per behaviour

\* the logs get_all_events_of_type_in_tx returns
SequencerLogs ==
    {[event |-> "Transfer", address |-> TOKEN,
      args |-> [from |-> "0xAAA", to |-> "0xBBB", value |-> 1]],
     [event |-> "Deposit", address |-> WETH, args |-> [dst |-> "0xAAA", wad |-> 1]],
     [event |-> "Deposit", address |-> WETH, args |-> [dst |-> "0xAAA", wad |-> 0]],
     [event |-> "Deposit", address |-> TOKEN, args |-> [dst |-> "0xAAA", wad |-> 1]],
     [event |-> "Withdrawal", address |-> WETH, args |-> [src |-> "0xAAA", wad |-> 1]],
     [event |-> "Withdrawal", address |-> TOKEN, args |-> [src |-> "0xAAA", wad |-> 1]]}

\* the events internal_transaction_to_event makes of the traces
SequencerTraces ==
    {[event |-> "Internal Transaction", address |-> ETH,
      args |-> [from |-> "0xAAA", to |-> "0xBBB", value |-> 1]],
     [event |-> "Deposit", address |-> ETH,
      args |-> [from |-> "0xAAA", to |-> WETH, value |-> 1]],
     [event |-> "Withdrawal", address |-> ETH,
      args |-> [from |-> WETH, to |-> "0xAAA", value |-> 1]]}

SeqUpTo(S, n) == UNION {[1..k -> S] : k \in 0..n}

SequencerTransactions ==
    [from : {"0xAAA"}, to : {"0xBBB", WETH}, value : {0, 1}, status : {0, 1},
     logs : SeqUpTo(SequencerLogs, MaxLogs),
     internal : SeqUpTo(SequencerTraces, MaxTraces),
     gasPrice : {1}, gasUsed : {GasUsed}]

SequencerBlock(tx) == [transactions |-> <<tx>>, miner |-> "0xBBB", baseFeePerGas |-> 0]

InitSequencer ==
    /\ policy \in Policies
    /\ blacklist = add_account_to_blacklist(
                       [bl |-> IF policy = "Poison" THEN {} ELSE EmptyDict,
                        tb |-> EmptyDict, tt |-> EmptyDict, err |-> ""],
                       ChainBalances, "0xAAA").bl
    /\ temp_balances = EmptyDict
    /\ tainted_transactions = EmptyDict
    /\ permanent = {}
    /\ chain_balance = EmptyDict
    /\ error = ""
    /\ last = [op |-> "init"]
    /\ steps = 0
    /\ chain = << >>
    /\ pc = "sequencer"
    /\ current_block = 0
    /\ loop_start_block = 0
    /\ next_block = 0
    /\ checkpoint = NoFile
    /\ processed = << >>
    /\ resumed = FALSE
    /\ current_tx = ""
    /\ reverted_traces = << >>

\* _process_transaction(tx): r is the run of the handler; left is what the
\* handler leaves of the internal-transaction list
TransactionDone(tx, r) ==
    /\ Install(r.s)
    /\ last' = [op |-> "transaction", tx |-> tx, before |-> blacklist,
                calls |-> r.calls, left |-> r.internal]

ProcessTransaction ==
    /\ pc = "sequencer"
    /\ error = ""
    /\ last.op \in {"init", "block"}
    /\ current_block < MaxSequencerBlocks
    /\ \E tx \in SequencerTransactions :
          TransactionDone(tx, Transaction_run(State, ChainBalances, tx,
                                              SequencerBlock(tx)))
    /\ steps' = steps + 1
    /\ UNCHANGED <<policy, permanent, chain_balance>>
    /\ UNCHANGED propVars

\* _process_block of the next block: the ledger is cleared
SequencerNextBlock ==
    /\ pc = "sequencer"
    /\ error = ""
    /\ last.op = "transaction"
    /\ temp_balances' = EmptyDict
    /\ current_block' = current_block + 1
    /\ last' = [op |-> "block"]
    /\ steps' = steps + 1
    /\ UNCHANGED <<policy, blacklist, tainted_transactions, permanent, error,
                   chain_balance>>
    /\ UNCHANGED <<chain, pc, loop_start_block, next_block, checkpoint, processed,
                   resumed, current_tx, reverted_traces>>

NextSequencer == ProcessTransaction \/ SequencerNextBlock

SpecSequencer == InitSequencer /\ [][NextSequencer]_vars

\* the calls of the last transaction that passed an event to the policy, and
\* the positions of its gas-fee processing
PolicyCalls == SelectSeq(last.calls, LAMBDA c : c.site \notin {"gas_fees", "drop"})
GasFeeCalls == {i \in DOMAIN last.calls : last.calls[i].site = "gas_fees"}

-----------------------------------------------------------------------------
(* Sequencer rule 1: a failed transaction                                    *)

FailedTransaction_handled == last.op = "transaction" /\ last.tx.status = 0

\* C17: for a transaction whose receipt status is 0, whatever logs and traces
\* it has, the handler passes no event to the policy and takes no entry off
\* the internal-transaction list; all it does is process the gas fees, once.
C17_FailedTransactionOnlyGasFees ==
    FailedTransaction_handled =>
        /\ last.calls = <<[site |-> "gas_fees"]>>
        /\ last.left = last.tx.internal

\* a failed transaction that sends ETH and has logs and traces
C17_Witness ==
    /\ FailedTransaction_handled
    /\ last.tx.value > 0
    /\ last.tx.logs # << >>
    /\ last.tx.internal # << >>
    /\ Cardinality(GasFeeCalls) = 1
    /\ PolicyCalls = << >>

-----------------------------------------------------------------------------
(* Sequencer rule 4: the outer ETH send                                      *)

\* the last step was a successful transaction with logs or two traces or more
MergePath ==
    /\ last.op = "transaction"
    /\ last.tx.status # 0
    /\ ~(last.tx.logs = << >> /\ Len(last.tx.internal) < 2)

\* the transaction sends ETH to something else than the WETH contract
OuterSend == last.tx.value > 0 /\ ~is_weth(last.tx.to)

\* the entries of the internal-transaction list the handler dealt with, in the
\* order it did
InternalHandled ==
    SelectSeq(last.calls,
              LAMBDA c : c.site \in {"first", "drain", "drop", "remaining"})

CallSites(site) == {i \in DOMAIN last.calls : last.calls[i].site = site}

\* the log opens a wrap or an unwrap that takes its trace off the list
TakesTrace(event) ==
    /\ event.event \in {"Deposit", "Withdrawal"}
    /\ is_weth(event.address)
    /\ event.args.wad > 0

\* C18: on the merge path, a transaction with value > 0 whose `to` is not the
\* WETH contract has the first entry of I passed to the policy before anything
\* else, and the entry is off the list: what the handler deals with afterwards
\* are the entries that follow it, each once.  With value 0 or `to` the WETH
\* contract nothing of I is passed ahead of the log walk: the first call is
\* what the walk makes of the first log, or the remaining entries if there is
\* no log.
C18_OuterSendFirst ==
    MergePath =>
        /\ (OuterSend /\ last.tx.internal # << >>) =>
              /\ last.calls # << >>
              /\ last.calls[1] = [site |-> "first", event |-> last.tx.internal[1]]
              /\ CallSites("first") = {1}
              /\ \A i \in DOMAIN InternalHandled :
                    /\ i <= Len(last.tx.internal)
                    /\ InternalHandled[i].event = last.tx.internal[i]
              /\ last.left = SubSeq(last.tx.internal,
                                    Len(last.tx.internal) - Len(last.left) + 1,
                                    Len(last.tx.internal))
              /\ Len(last.left) < Len(last.tx.internal)
        /\ ~OuterSend =>
              /\ CallSites("first") = {}
              /\ (last.tx.logs # << >> /\ ~TakesTrace(last.tx.logs[1])) =>
                    /\ last.calls # << >>
                    /\ last.calls[1] = [site |-> "log", event |-> last.tx.logs[1]]
              /\ (last.tx.logs = << >> /\ last.calls # << >>) =>
                    last.calls[1].site = "remaining"

\* an ETH send to a contract with a log and two traces: the first trace, the
\* log, then the second trace
C18_Witness ==
    /\ MergePath
    /\ OuterSend
    /\ Len(last.tx.internal) = 2
    /\ Len(last.tx.logs) = 1
    /\ error = ""
    /\ Len(last.calls) = 4
    /\ last.calls[1].site = "first"
    /\ last.calls[2].site = "log"
    /\ last.calls[3] = [site |-> "remaining", event |-> last.tx.internal[2]]

-----------------------------------------------------------------------------
(* Sequencer rule 5: the log walk and the traces of wraps and unwraps        *)

\* the events of the calls made at a site, in order
EventsAt(site) ==
    [i \in DOMAIN SelectSeq(last.calls, LAMBDA c : c.site = site) |->
        SelectSeq(last.calls, LAMBDA c : c.site = site)[i].event]

\* the calls the walk made for WETH Deposit and Withdrawal logs with wad > 0
WrapCalls ==
    {k \in CallSites("log") : TakesTrace(last.calls[k].event)}

\* the start of the run of "drain" calls that ends before position k
RECURSIVE DrainStart(_)
DrainStart(k) ==
    IF k > 1 /\ last.calls[k - 1].site = "drain" THEN DrainStart(k - 1) ELSE k

\* C19: a WETH Deposit (Withdrawal) log with wad > 0 that the walk processes
\* comes right after the drop of one internal Deposit (Withdrawal) entry; that
\* entry is the first of its kind on the list, the entries in front of it
\* having been passed to the policy just before, in the order of the list.
\* Nothing else is dropped, a dropped entry is never passed to the policy and
\* each log is passed once, in log order.
C19_WrapTakesItsTrace ==
    MergePath =>
        /\ \A k \in WrapCalls :
              /\ k > 1
              /\ last.calls[k - 1].site = "drop"
              /\ last.calls[k - 1].event.event = last.calls[k].event.event
              /\ \A j \in DrainStart(k - 1)..(k - 2) :
                    last.calls[j].event.event # last.calls[k].event.event
        /\ \A d \in CallSites("drop") : d + 1 \in WrapCalls
        /\ \A d \in CallSites("drain") :
              \/ d + 1 \in CallSites("drain") \cup CallSites("drop")
              \/ d = Len(last.calls) /\ error # ""
        /\ \A i \in DOMAIN InternalHandled :
              /\ i <= Len(last.tx.internal)
              /\ InternalHandled[i].event = last.tx.internal[i]
        /\ Len(EventsAt("log")) <= Len(last.tx.logs)
        /\ EventsAt("log") = SubSeq(last.tx.logs, 1, Len(EventsAt("log")))
        /\ error = "" => EventsAt("log") = last.tx.logs

\* a contract call that wraps 1 ETH of 0xAAA after an internal transfer: the
\* transfer is passed on, the Deposit trace dropped, the Deposit log
\* processed, and under Seniority 1 of the ETH taint has become WETH taint
C19_Witness ==
    /\ MergePath
    /\ policy = "Seniority"
    /\ error = ""
    /\ Len(last.tx.logs) = 1
    /\ last.tx.logs[1].event = "Deposit"
    /\ Len(last.calls) = 4
    /\ last.calls[1].site = "drain"
    /\ last.calls[1].event.event = "Internal Transaction"
    /\ last.calls[2].site = "drop"
    /\ last.calls[3] = [site |-> "log", event |-> last.tx.logs[1]]
    /\ last.calls[4].site = "gas_fees"
    /\ Dict_get_account_blacklist_value(blacklist, "0xAAA", WETH)
           = Dict_get_account_blacklist_value(last.before, "0xAAA", WETH) + 1

-----------------------------------------------------------------------------
(* Sequencer rule 6: the entries the log walk leaves                         *)

\* the walk has processed every log and the handler went on to the entries
\* that are left
WalkDone ==
    /\ MergePath
    /\ EventsAt("log") = last.tx.logs
    /\ \/ error \in {"", "exit"}
       \/ /\ last.calls # << >>
          /\ last.calls[Len(last.calls)].site = "remaining"

Unaccounted(entry) == entry.event \in {"Deposit", "Withdrawal"}

\* how many of the entries left were passed to the policy
RemainingPassed == Len(EventsAt("remaining"))

\* C20: once the logs are processed, the entries left on the list are passed
\* to the policy in trace order, after every other event of the transaction.
\* The first Deposit or Withdrawal among them ends the process: neither it nor
\* any later entry is passed, and the gas fees of the transaction are not
\* processed.  Without such an entry all of them are passed and the gas fees
\* are processed once, at the end.
C20_RemainingEntries ==
    WalkDone =>
        /\ RemainingPassed <= Len(last.left)
        /\ EventsAt("remaining") = SubSeq(last.left, 1, RemainingPassed)
        /\ \A i \in CallSites("remaining") :
              \A j \in DOMAIN last.calls :
                 last.calls[j].site \in {"first", "drain", "drop", "log"} => j < i
        /\ \A i \in 1..RemainingPassed : ~Unaccounted(last.left[i])
        /\ IF RemainingPassed < Len(last.left)
           THEN /\ Unaccounted(last.left[RemainingPassed + 1])
                /\ error = "exit"
                /\ GasFeeCalls = {}
           ELSE /\ error = ""
                /\ GasFeeCalls = {Len(last.calls)}

\* a token transfer with three traces, the second of them a Deposit: the
\* first trace is passed after the log, then the process ends
C20_Witness ==
    /\ WalkDone
    /\ Len(last.tx.logs) = 1
    /\ ~TakesTrace(last.tx.logs[1])
    /\ Len(last.left) = 3
    /\ ~Unaccounted(last.left[1])
    /\ Unaccounted(last.left[2])
    /\ ~Unaccounted(last.left[3])
    /\ Len(last.calls) = 2
    /\ last.calls[1].site = "log"
    /\ last.calls[2] = [site |-> "remaining", event |-> last.left[1]]
    /\ error = "exit"
    /\ GasFeeCalls = {}

-----------------------------------------------------------------------------
(* The gas fees of a transaction come last                                   *)

\* the handler returned
TransactionCompleted == last.op = "transaction" /\ error = ""

\* the path the handler took
FailedPath == last.op = "transaction" /\ last.tx.status = 0
SinglePath ==
    /\ last.op = "transaction"
    /\ last.tx.status # 0
    /\ last.tx.logs = << >>
    /\ Len(last.tx.internal) < 2

\* C21: a transaction whose processing completes without error has its gas
\* fees processed exactly once, on each of the three paths, and that call is
\* the last one the handler makes: every event of the transaction was passed
\* to the policy before it.
C21_GasFeesLastAndOnce ==
    TransactionCompleted =>
        /\ last.calls # << >>
        /\ GasFeeCalls = {Len(last.calls)}
        /\ FailedPath => PolicyCalls = << >>
        /\ SinglePath => EventsAt("single") = last.tx.internal
        /\ MergePath => EventsAt("log") = last.tx.logs

\* a merge-path transaction with an outer send, a log and a remaining trace,
\* the fees after the three events
C21_Witness ==
    /\ TransactionCompleted
    /\ MergePath
    /\ Len(PolicyCalls) = 3
    /\ CallSites("first") = {1}
    /\ CallSites("log") = {2}
    /\ CallSites("remaining") = {3}
    /\ GasFeeCalls = {4}

-----------------------------------------------------------------------------
(* EthereumUtils.internal_transaction_to_event: the traces of a block, as    *)
(* _process_block hands them over one by one.  A trace is                    *)
(* [transactionHash, traceAddress, error, type, value]: error tells whether  *)
(* the trace has an "error" key, and the action of a "call" or               *)
(* "delegatecall" trace has from, to, value and callType, that of a "create" *)
(* trace from and value only.                                                *)

MaxTraceCalls == 3      \* traces of a block
MaxTraceDepth == 2      \* length of a traceAddress

NoEvent == [event |-> None]

\* the transactions of the block, in block order
BlockHashes == <<"0x01", "0x02">>

TraceAddresses == SeqUpTo({0, 1}, MaxTraceDepth)

BlockTraces ==
    [transactionHash : {BlockHashes[i] : i \in DOMAIN BlockHashes},
     traceAddress : TraceAddresses,
     error : BOOLEAN,
     type : {"call", "delegatecall", "create"},
     value : {0, 1}]

\* all(a == b for a, b in zip(reverted_trace, traceAddress))
ZipAllEqual(reverted_trace, traceAddress) ==
    \A i \in 1..Min(Len(reverted_trace), Len(traceAddress)) :
        reverted_trace[i] = traceAddress[i]

\* u = [current_tx, reverted_traces] after the reset for a new transaction
Utils_reset(u, internal_tx) ==
    IF u.current_tx # internal_tx.transactionHash
    THEN [current_tx |-> internal_tx.transactionHash, reverted_traces |-> << >>]
    ELSE u

TraceEvent(internal_tx) ==
    [event |-> "Internal Transaction", address |-> ETH,
     args |-> [from |-> "0xAAA", to |-> "0xBBB", value |-> internal_tx.value]]

\* the conversion without the reset of the fields for a new transaction
internal_transaction_to_event_no_reset(u, internal_tx) ==
    IF internal_tx.error
    THEN [u |-> [u EXCEPT !.reverted_traces = Append(@, internal_tx.traceAddress)],
          ret |-> NoEvent]
    ELSE IF internal_tx.type = "create"
         THEN [u |-> u, ret |-> NoEvent]
         ELSE IF internal_tx.value > 0 /\ internal_tx.type = "call"
              THEN IF \E k \in DOMAIN u.reverted_traces :
                         ZipAllEqual(u.reverted_traces[k], internal_tx.traceAddress)
                   THEN [u |-> u, ret |-> NoEvent]
                   ELSE [u |-> u, ret |-> TraceEvent(internal_tx)]
              ELSE [u |-> u, ret |-> NoEvent]

\* internal_transaction_to_event(internal_tx) on the fields u; returns
\* [u, ret], ret being the event or NoEvent
internal_transaction_to_event(u, internal_tx) ==
    IF internal_tx.error
    THEN [u |-> [Utils_reset(u, internal_tx) EXCEPT
                    !.reverted_traces = Append(@, internal_tx.traceAddress)],
          ret |-> NoEvent]
    ELSE IF internal_tx.type = "create"
         THEN [u |-> Utils_reset(u, internal_tx), ret |-> NoEvent]
         ELSE IF internal_tx.value > 0 /\ internal_tx.type = "call"
              THEN IF \E k \in DOMAIN Utils_reset(u, internal_tx).reverted_traces :
                         ZipAllEqual(Utils_reset(u, internal_tx).reverted_traces[k],
                                     internal_tx.traceAddress)
                   THEN [u |-> Utils_reset(u, internal_tx), ret |-> NoEvent]
                   ELSE [u |-> Utils_reset(u, internal_tx),
                         ret |-> TraceEvent(internal_tx)]
              ELSE [u |-> Utils_reset(u, internal_tx), ret |-> NoEvent]

\* trace_block lists the traces transaction by transaction, a call before the
\* calls it makes and those in the order they were made
HashIndex(h) == CHOOSE i \in DOMAIN BlockHashes : BlockHashes[i] = h

IsPrefix(p, t) == Len(p) <= Len(t) /\ SubSeq(t, 1, Len(p)) = p

AddressBefore(p, t) ==
    \/ IsPrefix(p, t) /\ p # t
    \/ \E i \in 1..Min(Len(p), Len(t)) :
          /\ p[i] < t[i]
          /\ \A j \in 1..(i - 1) : p[j] = t[j]

TraceBefore(p, t) ==
    \/ HashIndex(p.transactionHash) < HashIndex(t.transactionHash)
    \/ /\ p.transactionHash = t.transactionHash
       /\ AddressBefore(p.traceAddress, t.traceAddress)

InitTraces ==
    /\ policy = "Seniority"
    /\ InitEngine
    /\ InitPropagatorIdle

\* seen: the traces handed over so far, this one included
TraceDone(internal_tx, r) ==
    /\ current_tx' = r.u.current_tx
    /\ reverted_traces' = r.u.reverted_traces
    /\ last' = [op |-> "trace", trace |-> internal_tx, ret |-> r.ret,
                seen |-> IF last.op = "trace" THEN Append(last.seen, internal_tx)
                         ELSE <<internal_tx>>]

InternalTransactionToEvent ==
    /\ pc = "engine"
    /\ steps < MaxTraceCalls
    /\ \E internal_tx \in BlockTraces :
          /\ last.op = "trace" => TraceBefore(last.trace, internal_tx)
          /\ TraceDone(internal_tx,
                       internal_transaction_to_event(
                           [current_tx |-> current_tx,
                            reverted_traces |-> reverted_traces], internal_tx))
    /\ steps' = steps + 1
    /\ UNCHANGED <<policy, blacklist, temp_balances, tainted_transactions, permanent,
                   chain_balance, error>>
    /\ UNCHANGED <<chain, pc, current_block, loop_start_block, next_block,
                   checkpoint, processed, resumed>>

NextTraces == InternalTransactionToEvent

SpecTraces == InitTraces /\ [][NextTraces]_vars

\* the traces handed over before the last one
EarlierTraces == SubSeq(last.seen, 1, Len(last.seen) - 1)

\* an earlier trace of the same transaction had an error and its address is a
\* prefix of the address of the last trace
UnderRevertedTrace ==
    \E k \in DOMAIN EarlierTraces :
       /\ EarlierTraces[k].transactionHash = last.trace.transactionHash
       /\ EarlierTraces[k].error
       /\ IsPrefix(EarlierTraces[k].traceAddress, last.trace.traceAddress)

\* C22: internal_transaction_to_event returns an event for a trace exactly
\* when the trace has value > 0, callType "call", no error, and no earlier
\* trace of the same transaction that had an error has a traceAddress that is
\* a prefix of its traceAddress; the event carries the value of the trace.
\* Traces of another transaction that had an error do not count.
C22_TraceFiltering ==
    last.op = "trace" =>
        /\ last.ret # NoEvent <=>
              /\ last.trace.value > 0
              /\ last.trace.type = "call"
              /\ ~last.trace.error
              /\ ~UnderRevertedTrace
        /\ last.ret # NoEvent => last.ret = TraceEvent(last.trace)

\* a call with value is dropped below a reverted call
C22_WitnessSuppressed ==
    /\ last.op = "trace"
    /\ last.trace.value > 0
    /\ last.trace.type = "call"
    /\ ~last.trace.error
    /\ UnderRevertedTrace
    /\ last.ret = NoEvent

\* a call with value of the second transaction is kept, its address being
\* that of a call of the first transaction that was reverted
C22_Witness ==
    /\ last.op = "trace"
    /\ last.ret # NoEvent
    /\ \E k \in DOMAIN EarlierTraces :
          /\ EarlierTraces[k].transactionHash # last.trace.transactionHash
          /\ EarlierTraces[k].error
          /\ EarlierTraces[k].traceAddress = last.trace.traceAddress

-----------------------------------------------------------------------------
(* DictBlacklist.remove_from_blacklist, as Reversed Seniority calls it       *)

\* the last event's _transfer_taint called
\* remove_from_blacklist(from, transferred_amount, currency)
DictRemoveCall == ReversedTransfer /\ ReversedTransferred > 0

\* what the call returns and the store it leaves
DictRemoved ==
    Dict_remove_from_blacklist(last.at, TaintCall.from, ReversedTransferred,
                               TaintCall.currency)

\* C23: DictBlacklist.remove_from_blacklist(a, amount, c) returns
\* min(amount, value(a,c)), lowers value(a,c) by the amount it returns, and
\* the (a,c) entry is deleted when the value reaches 0.
C23_DictRemoveReturnsMin ==
    DictRemoveCall =>
        /\ DictRemoved.ret = Min(ReversedTransferred, ReversedB)
        /\ Dict_get_account_blacklist_value(DictRemoved.bl, TaintCall.from,
                                            TaintCall.currency)
               = ReversedB - DictRemoved.ret
        /\ ReversedB - DictRemoved.ret = 0 =>
               ~Dict_is_blacklisted(DictRemoved.bl, TaintCall.from, TaintCall.currency)

-----------------------------------------------------------------------------
(* The temporary balance ledger: _increase_temp_balance,                     *)
(* _reduce_temp_balance and _get_temp_balance called in any order on the     *)
(* accounts and on ETH and a token, within blocks whose start clears the     *)
(* ledger, under the policies that keep a ledger.                            *)

MaxLedgerCalls == 4     \* ledger calls per behaviour

LedgerCurrencies == {ETH, TOKEN}
LedgerKeys == Accounts \X LedgerCurrencies
LedgerAmounts == {1}

\* the balances of the chain: all different, or all 1
LedgerChains ==
    {[k \in BalanceKeys |->
         IF k[2] = WETH \/ k[1] \notin Accounts THEN 0
         ELSE (IF k[1] = "0xAAA" THEN 1 ELSE 0) + (IF k[2] = ETH THEN 1 ELSE 0)],
     [k \in BalanceKeys |-> 1]}

InitLedger ==
    /\ policy \in {"Reversed Seniority", "FIFO"}
    /\ blacklist = EmptyDict
    /\ temp_balances = EmptyDict
    /\ tainted_transactions = EmptyDict
    /\ permanent = {}
    /\ chain_balance \in LedgerChains
    /\ error = ""
    /\ last = [op |-> "init", net |-> [k \in LedgerKeys |-> 0],
               fetches |-> [k \in LedgerKeys |-> 0]]
    /\ steps = 0
    /\ InitPropagatorIdle

\* a ledger call on (account, currency) that leaves the state s: net is the
\* sum of the adjustments applied to each key in the block, fetches the number
\* of times _get_balance was called for it
LedgerDone(call, account, currency, amount, s, ret) ==
    /\ Install(s)
    /\ last' = [op |-> call, account |-> account, currency |-> currency,
                amount |-> amount, ret |-> ret,
                net |-> IF s.err = "" /\ call \in {"increase", "reduce"}
                        THEN [last.net EXCEPT ![<<account, currency>>] =
                                 @ + (IF call = "increase" THEN amount ELSE -amount)]
                        ELSE last.net,
                fetches |-> IF currency \in Fetched(s.tb, account)
                                           \ Fetched(temp_balances, account)
                            THEN [last.fetches EXCEPT ![<<account, currency>>] = @ + 1]
                            ELSE last.fetches]
    /\ steps' = steps + 1
    /\ UNCHANGED <<policy, permanent, chain_balance>>
    /\ UNCHANGED propVars

CanCallLedger == pc = "engine" /\ error = "" /\ steps < MaxLedgerCalls

IncreaseTempBalance ==
    /\ CanCallLedger
    /\ \E k \in LedgerKeys, amount \in LedgerAmounts :
          LedgerDone("increase", k[1], k[2], amount,
                     increase_temp_balance(State, k[1], k[2], amount), 0)

ReduceTempBalance ==
    /\ CanCallLedger
    /\ \E k \in LedgerKeys, amount \in LedgerAmounts :
          LedgerDone("reduce", k[1], k[2], amount,
                     reduce_temp_balance(State, k[1], k[2], amount), 0)

GetTempBalance ==
    /\ CanCallLedger
    /\ \E k \in LedgerKeys :
          LedgerDone("get", k[1], k[2], 0,
                     get_temp_balance(State, chain_balance, k[1], k[2]).s,
                     get_temp_balance(State, chain_balance, k[1], k[2]).ret)

\* _process_block: self.temp_balances = {}
LedgerNextBlock ==
    /\ CanCallLedger
    /\ last.op \in {"increase", "reduce", "get"}
    /\ temp_balances' = EmptyDict
    /\ last' = [op |-> "block", net |-> [k \in LedgerKeys |-> 0],
                fetches |-> [k \in LedgerKeys |-> 0]]
    /\ steps' = steps + 1
    /\ UNCHANGED <<policy, blacklist, tainted_transactions, permanent, chain_balance,
                   error>>
    /\ UNCHANGED propVars

NextLedger ==
    IncreaseTempBalance \/ ReduceTempBalance \/ GetTempBalance \/ LedgerNextBlock

SpecLedger == InitLedger /\ [][NextLedger]_vars

LedgerKey == <<last.account, last.currency>>

\* C24: within a block the balance of (a,c) is fetched from the chain at most
\* once, and every _get_temp_balance(a,c) returns the balance of (a,c) at the
\* block plus the increases and minus the decreases applied to (a,c) so far
\* in the block, whether they came before or after the first read.
C24_LedgerConsistency ==
    /\ \A k \in LedgerKeys : last.fetches[k] <= 1
    /\ (last.op = "get" /\ error = "") =>
          /\ last.ret = Get_balance(chain_balance, last.account, last.currency)
                            + last.net[LedgerKey]
          /\ last.fetches[LedgerKey] = 1

\* a read of a key after two increases and three calls on it, the balance 2
\* of the chain having been fetched once
C24_Witness ==
    /\ last.op = "get"
    /\ error = ""
    /\ steps = 4
    /\ last.fetches[LedgerKey] = 1
    /\ last.net[LedgerKey] = 2
    /\ Get_balance(chain_balance, last.account, last.currency) = 2
    /\ last.ret = 4
    /\ temp_balances[last.account].bal[last.currency] = 4

\* the delta of a key in a ledger, 0 without an entry
LedgerDelta(tb, account, currency) ==
    IF account \in DOMAIN tb /\ currency \in DOMAIN tb[account].bal
    THEN tb[account].bal[currency]
    ELSE 0

\* C30: _increase_temp_balance(a,c,amount) and _reduce_temp_balance(a,c,amount)
\* never fail: whatever the ledger holds, the delta of (a,c) is adjusted by
\* the amount, starting from 0 when (a,c) has no entry, also when the ledger
\* has the account with another currency only.
C30_LedgerAdjustmentNeverFails ==
    error = "" =>
        \A k \in LedgerKeys, amount \in LedgerAmounts :
           /\ increase_temp_balance(State, k[1], k[2], amount).err = ""
           /\ reduce_temp_balance(State, k[1], k[2], amount).err = ""
           /\ LedgerDelta(increase_temp_balance(State, k[1], k[2], amount).tb,
                          k[1], k[2])
                  = LedgerDelta(temp_balances, k[1], k[2]) + amount
           /\ LedgerDelta(reduce_temp_balance(State, k[1], k[2], amount).tb,
                          k[1], k[2])
                  = LedgerDelta(temp_balances, k[1], k[2]) - amount


-----------------------------------------------------------------------------
(* Checkpoint acceptance of propagate_blacklist(load_checkpoint=True) *)

\* the checkpoint file is there and its block lies strictly inside the job
CheckpointAccepted ==
    /\ checkpoint # NoFile
    /\ chain.start_block < load_from_checkpoint(checkpoint).block
    /\ load_from_checkpoint(checkpoint).block < EndBlock

\* the checkpoint file is there and its block is the last block of the job
TargetReached ==
    /\ checkpoint # NoFile
    /\ load_from_checkpoint(checkpoint).block = EndBlock

\* C25: a call with load_checkpoint=True continues from the saved block with
\* the saved blacklist and counters iff start_block < saved_block < last block
\* of the job; with saved_block = last block it returns with no block
\* processed and the blacklist as it was; in every other case, a missing
\* checkpoint file included, the blacklist and counters stay as constructed
\* and the loop starts at start_block.
C25_CheckpointAcceptance ==
    [][(pc = "idle" /\ last'.op = "propagate" /\ last'.load_checkpoint) =>
          /\ CheckpointAccepted =>
                /\ pc' = "loop"
                /\ next_block' = load_from_checkpoint(checkpoint).block
                /\ blacklist' = load_from_checkpoint(checkpoint).blacklist
                /\ tainted_transactions' = load_from_checkpoint(checkpoint).tt
          /\ TargetReached =>
                /\ pc' = "done"
                /\ processed' = processed
                /\ blacklist' = blacklist
          /\ (~CheckpointAccepted /\ ~TargetReached) =>
                /\ pc' = "loop"
                /\ next_block' = chain.start_block
                /\ blacklist' = blacklist
                /\ tainted_transactions' = tainted_transactions]_vars


-----------------------------------------------------------------------------
(* propagate_blacklist over chains with transactions that raise, and with    *)
(* the KeyboardInterrupt of the operator.  Python raises KeyboardInterrupt   *)
(* in the main thread wherever the signal finds it; `except Exception` of    *)
(* _process_block does not catch it and propagate_blacklist has no handler.  *)

MaxAbortBlocks == 3         \* block_amount of a job of these chains
MaxBlockTransactions == 2   \* transactions in one block of these chains

\* a WETH Deposit log of a transaction with no trace at all
UnmatchedDeposit(a) ==
    [from |-> a, to |-> TOKEN, value |-> 0, status |-> 1,
     logs |-> <<[event |-> "Deposit", address |-> WETH,
                 args |-> [dst |-> a, wad |-> 1]]>>,
     internal |-> << >>, gasPrice |-> 1, gasUsed |-> GasUsed]

\* a WETH Withdrawal log of a transaction whose only trace is a plain transfer
UnmatchedWithdrawal(a) ==
    [from |-> a, to |-> TOKEN, value |-> 0, status |-> 1,
     logs |-> <<[event |-> "Withdrawal", address |-> WETH,
                 args |-> [src |-> a, wad |-> 1]]>>,
     internal |-> <<[event |-> "Internal Transaction", address |-> ETH,
                     args |-> [from |-> a, to |-> OtherAccount(a), value |-> 1]]>>,
     gasPrice |-> 1, gasUsed |-> GasUsed]

\* two WETH Deposit logs of a transaction with one Deposit trace
SecondDepositUnmatched(a) ==
    [DepositTransaction(a) EXCEPT
        !.logs = <<[event |-> "Deposit", address |-> WETH,
                    args |-> [dst |-> a, wad |-> 1]],
                   [event |-> "Deposit", address |-> WETH,
                    args |-> [dst |-> a, wad |-> 1]]>>]

AbortTransactions ==
    {TransferTransaction("0xAAA"), UnmatchedDeposit("0xAAA"),
     UnmatchedWithdrawal("0xAAA"), SecondDepositUnmatched("0xAAA")}

AbortBlocks ==
    [transactions : SeqUpTo(AbortTransactions, MaxBlockTransactions),
     miner : {"0xBBB"},
     baseFeePerGas : {1}]

AbortChains ==
    UNION {[start_block : {1}, block_amount : {n}, blocks : [1..n -> AbortBlocks]] :
              n \in 1..MaxAbortBlocks}

InitAbort ==
    /\ policy = "Seniority"
    /\ chain \in AbortChains
    /\ blacklist = Constructed.bl
    /\ temp_balances = EmptyDict
    /\ tainted_transactions = EmptyDict
    /\ permanent = {}
    /\ chain_balance = EmptyDict
    /\ error = ""
    /\ last = [op |-> "init"]
    /\ steps = 0
    /\ pc = "idle"
    /\ current_block = -1
    /\ loop_start_block = 0
    /\ next_block = 0
    /\ checkpoint = NoFile
    /\ processed = << >>
    /\ resumed = FALSE
    /\ current_tx = ""
    /\ reverted_traces = << >>

\* _process_block up to and including its n-th transaction
Block_prefix(s, cb, block, n) ==
    process_block(s, cb, [block EXCEPT !.transactions = SubSeq(@, 1, n)])

\* KeyboardInterrupt raised inside _process_block(i) when n transactions of
\* the block are done: it leaves _process_block and propagate_blacklist
Interrupted(i, n, s) ==
    /\ s.err = ""
    /\ Install([s EXCEPT !.err = "KeyboardInterrupt"])
    /\ current_block' = i
    /\ processed' = Append(processed, i)
    /\ pc' = "interrupted"
    /\ last' = [op |-> "interrupt", block |-> i, done |-> n]
    /\ UNCHANGED <<policy, permanent, chain_balance, steps, chain, checkpoint,
                   next_block, loop_start_block, resumed, current_tx,
                   reverted_traces>>

KeyboardInterrupt ==
    /\ pc = "loop"
    /\ next_block <= EndBlock
    /\ \E n \in 0..Len(BlockAt(next_block).transactions) :
           Interrupted(next_block, n,
                       Block_prefix(State, ChainBalances, BlockAt(next_block), n))

NextAbort ==
    Propagate \/ ProcessBlock \/ Finish \/ KeyboardInterrupt \/ Stop \/ Restart

SpecAbort == InitAbort /\ [][NextAbort]_vars


\* the blocks passed to _process_block so far
ProcessedBlocks == {processed[k] : k \in DOMAIN processed}

\* C26: a block whose processing raises ends the run (the exception leaves
\* _process_block and propagate_blacklist) with the checkpoint file as it was
\* before the block, and nothing is written afterwards; whenever the
\* checkpoint file is written, no exception is pending, its block field is
\* the block processed last, every block of the job up to it was passed to
\* _process_block, and its blacklist is the one left by the complete
\* _process_block of that block.
C26_NoPartialBlockCheckpoint ==
    [][/\ (last'.op = "block" /\ error' # "") =>
              (pc' = "failed" /\ checkpoint' = checkpoint)
       /\ pc = "failed" => (pc' = "failed" /\ checkpoint' = checkpoint)
       /\ checkpoint' # checkpoint =>
              /\ error' = ""
              /\ pc' \in {"loop", "done"}
              /\ checkpoint' = save_checkpoint(current_block', blacklist',
                                               tainted_transactions')
              /\ \A b \in chain.start_block..current_block' : b \in ProcessedBlocks'
              /\ last'.op = "block" =>
                     /\ current_block' = next_block
                     /\ blacklist' = process_block(State, ChainBalances,
                                                   BlockAt(next_block)).bl
              /\ last'.op = "finish" =>
                     /\ last.op = "block"
                     /\ error = ""
                     /\ blacklist' = blacklist]_vars

\* a block raised IndexError after an earlier block's checkpoint was written
C26_Witness ==
    /\ pc = "failed"
    /\ error = "IndexError"
    /\ last.op = "block"
    /\ checkpoint # NoFile
    /\ load_from_checkpoint(checkpoint).block = current_block - 1


\* C27: when the KeyboardInterrupt of the operator ends a running
\* propagate_blacklist, every transaction of the block being processed has
\* been processed and the checkpoint file holds that block with the blacklist
\* reached: the interrupt never ends the run inside a block or without a
\* checkpoint.
C27_CooperativeCancellation ==
    last.op = "interrupt" =>
        /\ last.done = Len(BlockAt(last.block).transactions)
        /\ checkpoint # NoFile
        /\ checkpoint = save_checkpoint(last.block, blacklist, tainted_transactions)


\* the log walk of _process_transaction up to, not including, log k
WalkBefore(s, cb, tx, k) ==
    Transaction_events(Transaction_first_internal(Transaction_start(s, tx), cb, tx),
                       cb, SubSeq(tx.logs, 1, k - 1))

\* the walk over the logs of tx reaches log k, a WETH Deposit or Withdrawal
\* with wad > 0, when the list r.internal holds no entry of that kind
ReachesUnmatched(tx, k, r) ==
    /\ tx.status # 0
    /\ ~(tx.logs = << >> /\ Len(tx.internal) < 2)
    /\ r.s.err = ""
    /\ tx.logs[k].event \in {"Deposit", "Withdrawal"}
    /\ is_weth(tx.logs[k].address)
    /\ tx.logs[k].args.wad > 0
    /\ \A j \in DOMAIN r.internal : r.internal[j].event # tx.logs[k].event

\* what the missing counterpart of log k does to the transaction: before is
\* the walk up to log k, r the whole run of _process_transaction
MissingCounterpart(before, r) ==
    /\ r.s.err # ""
    /\ Len(r.calls) >= Len(before.calls)
    /\ \A c \in DOMAIN r.calls :
          IF c <= Len(before.calls)
          THEN r.calls[c] = before.calls[c]
          ELSE r.calls[c].site = "drain"

\* C28: when the log walk of a transaction reaches a WETH Deposit or
\* Withdrawal log with wad > 0 and the list of internal transactions holds no
\* entry of that kind, _process_transaction raises: neither that log event
\* nor the gas fee of the transaction is passed to the policy, the exception
\* ends _process_block and propagate_blacklist, and the policy is left as that
\* transaction left it: no later transaction is processed.
C28_MissingWethCounterpartFatal ==
    [][(pc = "loop" /\ last'.op = "block") =>
          \A n \in DOMAIN BlockAt(next_block).transactions :
             \A k \in DOMAIN BlockAt(next_block).transactions[n].logs :
                (/\ Block_prefix(State, ChainBalances, BlockAt(next_block),
                                 n - 1).err = ""
                 /\ ReachesUnmatched(
                        BlockAt(next_block).transactions[n], k,
                        WalkBefore(Block_prefix(State, ChainBalances,
                                                BlockAt(next_block), n - 1),
                                   ChainBalances,
                                   BlockAt(next_block).transactions[n], k)))
                => /\ MissingCounterpart(
                          WalkBefore(Block_prefix(State, ChainBalances,
                                                  BlockAt(next_block), n - 1),
                                     ChainBalances,
                                     BlockAt(next_block).transactions[n], k),
                          Transaction_run(Block_prefix(State, ChainBalances,
                                                       BlockAt(next_block), n - 1),
                                          ChainBalances,
                                          BlockAt(next_block).transactions[n],
                                          BlockAt(next_block)))
                   /\ pc' = "failed"
                   /\ error' # ""
                   /\ checkpoint' = checkpoint
                   /\ [bl |-> blacklist', tb |-> temp_balances',
                       tt |-> tainted_transactions', err |-> error']
                         = process_transaction(
                               Block_prefix(State, ChainBalances,
                                            BlockAt(next_block), n - 1),
                               ChainBalances,
                               BlockAt(next_block).transactions[n],
                               BlockAt(next_block))]_vars

\* the second Deposit log of the first of two transactions of a block found
\* no trace: the run failed with the first Deposit applied
C28_Witness ==
    /\ pc = "failed"
    /\ error = "IndexError"
    /\ last.op = "block"
    /\ Len(BlockAt(current_block).transactions) = 2
    /\ BlockAt(current_block).transactions[1] = SecondDepositUnmatched("0xAAA")


-----------------------------------------------------------------------------
(* Full-tainting of the tokens of seed accounts *)

\* the blacklist entry of an account, empty without one
AccountEntry(bl, account) ==
    IF account \in DOMAIN bl THEN bl[account] ELSE EmptyDict

\* the account was added by add_account_to_blacklist: it has an "all" list
HasAllList(bl, account) == ALL \in DOMAIN AccountEntry(bl, account)

\* the tainted value of (account, currency) in a blacklist
TaintedValue(bl, account, currency) ==
    get_blacklist_value([bl |-> bl], account, currency)

\* the step is a token Transfer event with an account whose "all" list does
\* not hold the token yet
FirstTokenEvent(event, account) ==
    /\ account \in {event.args.from, event.args.to}
    /\ HasAllList(blacklist, account)
    /\ ~InList(TransferCurrency(event), AllList(blacklist, account))

\* the blacklist after a checkpoint was saved and loaded
Reloaded(bl) == load_from_checkpoint(save_checkpoint(0, bl, EmptyDict)).blacklist

\* full-tainting an account again after the blacklist bl was saved to a
\* checkpoint and loaded adds nothing for the tokens of its "all" list
ReloadKeepsAllLists(bl, loaded) ==
    \A a \in Accounts, c \in {WETH, TOKEN} :
       InList(c, AllList(bl, a)) =>
          /\ InList(c, AllList(loaded, a))
          /\ fully_taint_token([bl |-> loaded, tb |-> EmptyDict,
                                tt |-> EmptyDict, err |-> ""],
                               ChainView(NoAnswers), a, c, FALSE).bl = loaded

\* the setup of a token Transfer event: before and at are the blacklist when
\* the event arrives and when its _transfer_taint is called
FullTaintStep(event, currency, before, at, balances) ==
    \A a \in Accounts :
       IF FirstTokenEvent(event, a)
       THEN /\ TaintedValue(at, a, currency)
                  = TaintedValue(before, a, currency) + balances[<<a, currency>>]
            /\ AllList(at, a) = Append(AllList(before, a), currency)
       ELSE AccountEntry(at, a) = AccountEntry(before, a)

\* C29: a token Transfer event full-taints an account only if the account
\* was seed-added and its "all" list does not hold the token: then the
\* account's balance of the token is added to its tainted value once and the
\* token is recorded in the list; for every other account of the event, and
\* at every later event with that token, the setup of the event leaves the
\* account's entry as it was, also when the tainted value is 0 by then and
\* when the blacklist went through a checkpoint; the "all" list of an account
\* appears only when add_account_to_blacklist adds that account.
C29_FullTaintOnce ==
    [][policy # "Poison" =>
          /\ (/\ last'.op = "event"
              /\ IsTransfer(last'.event)
              /\ last'.event.address # ETH) =>
                 FullTaintStep(last'.event, TransferCurrency(last'.event),
                               blacklist, last'.at, chain_balance')
          /\ \A a \in Accounts :
                (HasAllList(blacklist', a) /\ ~HasAllList(blacklist, a)) =>
                    (last'.op = "seed" /\ last'.account = a)
          /\ blacklist' # blacklist =>
                ReloadKeepsAllLists(blacklist', Reloaded(blacklist'))]_vars

\* a later Transfer event of a token of the seed account: the token is in the
\* "all" list, the tainted value has dropped to 0, the balance has not
C29_Witness ==
    /\ policy # "Poison"
    /\ last.op = "event"
    /\ IsTransfer(last.event)
    /\ last.event.address = TOKEN
    /\ "0xAAA" \in {last.event.args.from, last.event.args.to}
    /\ InList(TOKEN, AllList(last.before, "0xAAA"))
    /\ TaintedValue(last.before, "0xAAA", TOKEN) = 0
    /\ chain_balance[<<"0xAAA", TOKEN>>] > 0
    /\ last.at = last.before


-----------------------------------------------------------------------------
(* A transaction that sends ETH and has no trace *)

\* the last transaction succeeded, sends ETH to an address other than WETH
\* and came with an empty list of internal transactions
OuterSendWithoutTrace ==
    /\ last.op = "transaction"
    /\ last.tx.status # 0
    /\ last.tx.value > 0
    /\ ~is_weth(last.tx.to)
    /\ last.tx.internal = << >>

\* C31: a successful transaction with value > 0 to an address other than
\* WETH whose list of internal transactions is empty ends with a fatal error
\* and passes nothing to the policy, with logs in the receipt and without.
C31_MissingOuterSendTraceFatal ==
    OuterSendWithoutTrace => (error # "" /\ last.calls = << >>)

\* the same for receipts with logs only
C31_MissingOuterSendTraceFatalWithLogs ==
    (OuterSendWithoutTrace /\ last.tx.logs # << >>) =>
        (error = "exit" /\ last.calls = << >>)

\* the short path: no logs, no trace, the gas fees are processed and the
\* handler returns
C31_ShortPathContinues ==
    (OuterSendWithoutTrace /\ last.tx.logs = << >>) =>
        (error = "" /\ Len(last.calls) = 1 /\ last.calls[1].site = "gas_fees")


-----------------------------------------------------------------------------
(* The counters of tainted transactions *)

\* a counter of an account, 0 without an entry
Counter(tt, account, field) ==
    IF account \in DOMAIN tt THEN tt[account][field] ELSE 0

\* the tainted values of some account differ between two blacklists
TaintMoved(from, to) ==
    \E a \in Addresses, c \in Currencies :
       TaintedValue(from, a, c) # TaintedValue(to, a, c)

\* the counters after _record_tainted_transaction(sender, receiver, fee)
Recorded(tt, sender, receiver, fee) ==
    record_tainted_transaction([tt |-> tt], sender, receiver, fee).tt

\* C32: a Transfer event or a gas-fee step that moved a nonzero amount of
\* taint (the tainted value of some account changed, burns included, or the
\* transfer reports a tainted amount) increments the outgoing counter of the
\* sender and the incoming counter of the receiver once (the fee counters for
\* gas fees), and a step that moved no taint leaves every counter as it was.
\* Gas fees a sender pays to itself as miner are left out.
C32_TaintedTransactionCounters ==
    [][(policy # "Poison" /\ error' = "") =>
          /\ (last'.op = "event" /\ IsTransfer(last'.event)) =>
                tainted_transactions' =
                    IF TaintMoved(last'.at, blacklist') \/ last'.ret > 0
                    THEN Recorded(tainted_transactions, last'.event.args.from,
                                  last'.event.args.to, FALSE)
                    ELSE tainted_transactions
          /\ (last'.op = "gas" /\ last'.sender # last'.fee.miner) =>
                tainted_transactions' =
                    IF TaintMoved(blacklist, blacklist')
                    THEN Recorded(tainted_transactions, last'.sender,
                                  last'.fee.miner, TRUE)
                    ELSE tainted_transactions]_vars


-----------------------------------------------------------------------------
(* Sign of the tainted amounts *)

\* C33: under Haircut, Seniority and Reversed Seniority every value
\* B(a,c) the DictBlacklist holds is >= 0 in every reachable state, whatever
\* the amounts sent, the temp balances and the blacklist values were.
C33_TaintedAmountsNonNegative ==
    policy \in {"Haircut", "Seniority", "Reversed Seniority"} =>
        \A a \in DOMAIN blacklist :
           \A c \in DOMAIN blacklist[a] \ {ALL} : blacklist[a][c] >= 0

-----------------------------------------------------------------------------
(* The merge of the receipt logs and the internal transactions               *)

\* what became of the entries of the internal-transaction list, in the order
\* the handler dealt with them: passed to the policy or dropped
InternalDealtWith ==
    SelectSeq(last.calls,
              LAMBDA c : c.site \in {"single", "first", "drain", "drop", "remaining"})

\* the last step was a successful transaction the handler finished
MergeCompleted ==
    /\ last.op = "transaction"
    /\ last.tx.status # 0
    /\ error = ""

\* C34: for a successful transaction processed without error the logs reach
\* the policy in the order of the receipt, which is that of their logIndex,
\* each decoded log once; the internal entries are dealt with in trace order,
\* each once: passed to the policy, or dropped right before the one WETH
\* Deposit or Withdrawal log of its kind that it is the counterpart of.
C34_MergePreservesOrders ==
    MergeCompleted =>
        /\ EventsAt("log") = last.tx.logs
        /\ Len(InternalDealtWith) = Len(last.tx.internal)
        /\ \A i \in DOMAIN InternalDealtWith :
              InternalDealtWith[i].event = last.tx.internal[i]
        /\ \A d \in CallSites("drop") :
              /\ d + 1 \in WrapCalls
              /\ last.calls[d].event.event = last.calls[d + 1].event.event
        /\ \A k \in WrapCalls : k - 1 \in CallSites("drop")
        /\ Len(last.calls) = Len(last.tx.logs) + Len(last.tx.internal) + 1

\* an outer send that wraps ETH and then moves a token: the first trace is
\* passed first, the Deposit trace dropped for the Deposit log, the Transfer
\* log follows the Deposit log and the trace left comes after the logs
C34_Witness ==
    /\ MergeCompleted
    /\ Len(last.tx.logs) = 2
    /\ last.tx.logs[1].event = "Deposit"
    /\ last.tx.logs[2].event = "Transfer"
    /\ Len(last.tx.internal) = 3
    /\ Len(last.calls) = 6
    /\ last.calls[1] = [site |-> "first", event |-> last.tx.internal[1]]
    /\ last.calls[2] = [site |-> "drop", event |-> last.tx.internal[2]]
    /\ last.calls[3] = [site |-> "log", event |-> last.tx.logs[1]]
    /\ last.calls[4] = [site |-> "log", event |-> last.tx.logs[2]]
    /\ last.calls[5] = [site |-> "remaining", event |-> last.tx.internal[3]]
    /\ last.calls[6].site = "gas_fees"


-----------------------------------------------------------------------------
(* Deposit and Withdrawal entries of the internal-transaction list           *)

\* an event internal_transaction_to_event classified Deposit or Withdrawal:
\* it carries from, to and value, not dst or src and wad
TraceDerivedWeth(event) ==
    /\ event.event \in {"Deposit", "Withdrawal"}
    /\ "from" \in DOMAIN event.args

\* the calls of _process_event with such an entry
TraceWethProcessed ==
    {i \in DOMAIN last.calls :
        /\ last.calls[i].site \in {"single", "first", "drain", "log", "remaining"}
        /\ TraceDerivedWeth(last.calls[i].event)}

\* C35: no internal entry classified Deposit or Withdrawal is passed to
\* _process_event; such an entry is dropped for a WETH log of its kind or it
\* ends the loop over the remaining entries.
C35_TraceWethNeverProcessed ==
    last.op = "transaction" => TraceWethProcessed = {}

\* the same on the paths that drop or report: the walk of a log of the kind
\* of the entry and the loop over the remaining entries
C35_DroppedOrReported ==
    last.op = "transaction" =>
        \A i \in TraceWethProcessed : last.calls[i].site \in {"single", "first", "drain"}


-----------------------------------------------------------------------------
(* No transfer credits more taint than was sent or held                      *)

\* the last step was an event whose _transfer_taint call had a sender that is
\* not permanently tainted and a receiver entry other than the sender's
AmountTransfer ==
    /\ policy \in {"Seniority", "Reversed Seniority", "FIFO"}
    /\ last.op = "event"
    /\ error = ""
    /\ CallsTransferTaint(last.event)
    /\ TaintCall.from \notin permanent
    /\ <<TaintCall.to, TaintCall.currency_2>> # <<TaintCall.from, TaintCall.currency>>

\* what the call added to the receiver's tainted value
Credited ==
    TaintedValue(blacklist, TaintCall.to, TaintCall.currency_2)
        - TaintedValue(last.at, TaintCall.to, TaintCall.currency_2)

\* the sender's tainted value when the call was made
SenderTaint == TaintedValue(last.at, TaintCall.from, TaintCall.currency)

\* C36: the taint one transfer credits to the receiver exceeds neither the
\* amount sent nor the tainted value the sender had before the transfer
C36_NoTaintAmplification ==
    AmountTransfer =>
        /\ Credited <= TaintCall.amount
        /\ Credited <= SenderTaint

\* the part of C36 that is about the amount sent
C36_CreditWithinAmount == AmountTransfer => Credited <= TaintCall.amount


-----------------------------------------------------------------------------
(* Gas fees create no taint                                                  *)

\* the last step was _process_gas_fees under Seniority or Reversed Seniority
\* for a sender that is not permanently tainted, the miner's share within the
\* total fee
AmountFee ==
    /\ policy \in {"Seniority", "Reversed Seniority"}
    /\ last.op = "gas"
    /\ error = ""
    /\ ~is_permanently_tainted(last.sender)
    /\ paid_to_miner(last.fee) <= total_fee_paid(last.fee)

FeeCredit ==
    Dict_get_account_blacklist_value(blacklist, last.fee.miner, ETH)
        - Dict_get_account_blacklist_value(last.before, last.fee.miner, ETH)

FeeDebit ==
    Dict_get_account_blacklist_value(last.before, last.sender, ETH)
        - Dict_get_account_blacklist_value(blacklist, last.sender, ETH)

\* C37: a gas-fee step credits the miner at most what it takes from the
\* sender, and the ETH taint of all accounts together does not grow; no
\* other currency's taint changes
C37_GasFeesCreateNoTaint ==
    AmountFee =>
        /\ last.fee.miner # last.sender =>
              /\ FeeDebit >= 0
              /\ FeeCredit <= FeeDebit
        /\ TotalTaint(blacklist, ETH) <= TotalTaint(last.before, ETH)
        /\ \A c \in Currencies \ {ETH} :
              TotalTaint(blacklist, c) = TotalTaint(last.before, c)

\* a fee of a tainted sender of which the miner gets a part: the miner's
\* taint grows by less than the sender's shrinks, the rest is burnt
C37_Witness ==
    /\ AmountFee
    /\ last.fee.miner \in Accounts \ {last.sender}
    /\ FeeCredit > 0
    /\ FeeCredit < FeeDebit
    /\ TotalTaint(blacklist, ETH) < TotalTaint(last.before, ETH)


-----------------------------------------------------------------------------
(* Poison: the tainted set only grows and follows every observed flow        *)

\* the event of the step is a transfer whose sender was tainted when
\* _transfer_taint was called, the receiver not being the null address
PoisonFlow(step, sender, receiver) ==
    /\ step.op = "event"
    /\ CallsTransferTaint(step.event)
    /\ sender \in step.at
    /\ receiver # NULL_ADDRESS

\* the step is the gas fee of a sender that was tainted, mined by an account
PoisonFee(step) ==
    /\ step.op = "gas"
    /\ step.sender \in step.before
    /\ step.fee.miner # NULL_ADDRESS

\* C38: under Poison no step takes an account out of the tainted set, and the
\* receiver of a transfer, and the miner of a transaction, of an account that
\* is tainted at that moment is tainted afterwards (and stays so)
C38_PoisonMonotoneClosed ==
    [][policy = "Poison" =>
          /\ blacklist \subseteq blacklist'
          /\ PoisonFlow(last', TransferTaintCall(last'.event).from,
                        TransferTaintCall(last'.event).to) =>
                 TransferTaintCall(last'.event).to \in blacklist'
          /\ PoisonFee(last') => last'.fee.miner \in blacklist']_vars

\* the last step was the gas fee of a tainted sender, none of it paid to the
\* miner, mined by an account that was clean: the miner has joined the set
C38_Witness ==
    /\ policy = "Poison"
    /\ PoisonFee(last)
    /\ paid_to_miner(last.fee) = 0
    /\ last.fee.miner \notin last.before
    /\ blacklist = last.before \cup {last.fee.miner}
    /\ Cardinality(blacklist) = 2


-----------------------------------------------------------------------------
(* Deposit and Withdrawal logs of other contracts than WETH                  *)

ForeignWrapLog(event) ==
    /\ event.event \in {"Deposit", "Withdrawal"}
    /\ "wad" \in DOMAIN event.args
    /\ ~is_weth(event.address)

\* the transaction without the Deposit and Withdrawal logs of other contracts
WithoutForeignLogs(tx) ==
    [tx EXCEPT !.logs = SelectSeq(tx.logs, LAMBDA l : ~ForeignWrapLog(l))]

\* the calls of a handler run except those that passed such a log
CallsExceptForeign(calls) ==
    SelectSeq(calls, LAMBDA c : ~(c.site = "log" /\ ForeignWrapLog(c.event)))

\* the transaction stays on the merge path when these logs are left out
StaysOnMergePath(tx) ==
    ~(WithoutForeignLogs(tx).logs = << >> /\ Len(tx.internal) < 2)

\* the handler's run for tx ended as the run r of the transaction without the
\* foreign logs: same blacklist, ledger, counters and outcome, the same
\* entries left of the internal-transaction list and, on the same path, the
\* same calls around the foreign logs
SameAsWithout(tx, r, bl, tb, tt, err, step) ==
    /\ bl = r.s.bl
    /\ tb = r.s.tb
    /\ tt = r.s.tt
    /\ StaysOnMergePath(tx) =>
          /\ err = r.s.err
          /\ step.left = r.internal
          /\ CallsExceptForeign(step.calls) = r.calls
    /\ \A k \in DOMAIN step.calls :
          (step.calls[k].site = "log" /\ ForeignWrapLog(step.calls[k].event) /\ k > 1) =>
              step.calls[k - 1].site \in {"first", "log"}

\* C39: a successful transaction with Deposit or Withdrawal logs of other
\* contracts than WETH is processed as the same transaction without them:
\* these logs change neither the blacklist nor the temp ledger nor the
\* counters and take no entry off the internal-transaction list
C39_ForeignWrapLogsNoEffect ==
    [][(last'.op = "transaction" /\ last'.tx.status # 0
          /\ (StaysOnMergePath(last'.tx) \/ error' = "")
          /\ \E k \in DOMAIN last'.tx.logs : ForeignWrapLog(last'.tx.logs[k])) =>
           SameAsWithout(last'.tx,
                         Transaction_run(State, ChainBalances,
                                         WithoutForeignLogs(last'.tx),
                                         SequencerBlock(last'.tx)),
                         blacklist', temp_balances', tainted_transactions',
                         error', last')]_vars

\* a Deposit log of a token contract ahead of a WETH Deposit log: the first
\* is passed without touching the list, the second finds the Deposit trace
C39_Witness ==
    /\ last.op = "transaction"
    /\ error = ""
    /\ Len(last.tx.logs) = 2
    /\ ForeignWrapLog(last.tx.logs[1])
    /\ last.tx.logs[1].event = "Deposit"
    /\ TakesTrace(last.tx.logs[2])
    /\ last.tx.logs[2].event = "Deposit"
    /\ Len(last.calls) = 4
    /\ last.calls[1] = [site |-> "log", event |-> last.tx.logs[1]]
    /\ last.calls[2].site = "drop"
    /\ last.calls[3] = [site |-> "log", event |-> last.tx.logs[2]]
    /\ last.left = << >>


-----------------------------------------------------------------------------
(* FIFOBlacklist.remove_from_blacklist, iteration by iteration.  The queue   *)
(* of (0xAAA, ETH) holds up to MaxQueue pairs [tainted_portion,              *)
(* total_inflow] of 0..MaxPair each, tainted portions above the inflow       *)
(* included, and the call removes an amount of 1..MaxRemoved.  `last` holds  *)
(* the locals of the call: the amount left, blacklisted_amount_removed and   *)
(* the position (in the loop, after it, returned).                           *)

MaxQueue == 3       \* pairs in the queue when the call is made
MaxPair == 2        \* largest tainted_portion and total_inflow of a pair
MaxRemoved == 4     \* largest amount to remove

RemovePairs == (0..MaxPair) \X (0..MaxPair)

RemoveQueues == UNION {[1..n -> RemovePairs] : n \in 0..MaxQueue}

RemoveQueue == blacklist["0xAAA"][ETH]

InitRemove ==
    /\ policy = "FIFO"
    /\ \E q \in RemoveQueues :
          blacklist = Put(EmptyDict, "0xAAA", Put(EmptyDict, ETH, q))
    /\ temp_balances = EmptyDict
    /\ tainted_transactions = EmptyDict
    /\ permanent = {}
    /\ chain_balance = EmptyDict
    /\ error = ""
    /\ \E amount \in 1..MaxRemoved :
          last = [op |-> "remove", at |-> "loop", amount |-> amount,
                  removed |-> 0, q0 |-> << >>, asked |-> amount]
    /\ steps = 0
    /\ InitPropagatorIdle

\* one pass through the body of the while loop
RemoveIteration ==
    /\ last.op = "remove"
    /\ last.at = "loop"
    /\ RemoveQueue # << >>
    /\ LET r == FIFO_remove_iteration(RemoveQueue, last.amount, last.removed)
       IN  /\ blacklist' = Put(blacklist, "0xAAA", Put(blacklist["0xAAA"], ETH, r.q))
           /\ last' = [last EXCEPT !.amount = r.amount, !.removed = r.removed,
                                   !.at = IF r.break THEN "after" ELSE "loop"]
    /\ UNCHANGED <<policy, temp_balances, tainted_transactions, permanent,
                   chain_balance, error, steps>>
    /\ UNCHANGED propVars

\* the loop has ended, by its condition or by break: the purge and the return
RemoveReturn ==
    /\ last.op = "remove"
    /\ \/ last.at = "after"
       \/ last.at = "loop" /\ RemoveQueue = << >>
    /\ blacklist' = FIFO_purge(blacklist, "0xAAA", ETH)
    /\ last' = [last EXCEPT !.at = "returned", !.q0 = RemoveQueue]
    /\ UNCHANGED <<policy, temp_balances, tainted_transactions, permanent,
                   chain_balance, error, steps>>
    /\ UNCHANGED propVars

NextRemove == RemoveIteration \/ RemoveReturn

\* the interpreter goes on with the call as long as it has not returned
SpecRemove == InitRemove /\ [][NextRemove]_vars /\ WF_vars(NextRemove)

\* C40: every call of remove_from_blacklist with an amount above 0 returns,
\* whatever pairs the queue holds, and each iteration of its loop either pops
\* the head pair or brings the amount left to 0 and ends the loop
C40_RemoveTerminates ==
    /\ [][(last.at = "loop" /\ last'.at # "returned") =>
             \/ last'.at = "loop" /\ RemoveQueue' = Tail(RemoveQueue)
                                  /\ last'.amount # 0
             \/ last'.at = "after" /\ last'.amount = 0]_vars
    /\ <>(last.at = "returned")

\* a call that asked for more than the queue of three pairs holds, a pair
\* without inflow among them: the loop has popped them all and returned
C40_Witness ==
    /\ last.op = "remove"
    /\ last.at = "returned"
    /\ last.asked = MaxRemoved
    /\ last.amount > 0
    /\ last.q0 = << >>
    /\ last.removed > 0
    /\ "0xAAA" \notin DOMAIN blacklist


=============================================================================
